---- MODULE Spec2Model ----
(***************************************************************************)
(* A model of the sales-tracking backend: the document collections         *)
(* (users, sales, leaves, products), the request handlers of server.js and *)
(* of its earlier variant, the Excel bulk-import routes, and the Mongoose   *)
(* schema rules (required fields, enums, casts, save hooks, unique         *)
(* indexes) that decide which documents reach the store.                   *)
(*                                                                         *)
(* Conventions.  An absent (undefined) or empty string is "", an absent    *)
(* date is 0 and dates are day numbers (the code compares YYYY-MM-DD       *)
(* strings, whose order is the calendar order).  A spreadsheet cell of a   *)
(* numeric column is a natural number, Absent or Text; JavaScript's        *)
(* Number() is ToNumber, with NaN as a value of its own.                   *)
(***************************************************************************)
EXTENDS Integers, Sequences, FiniteSets, TLC

VARIABLES
    boot,          \* startup of server.js: "connected", "dropped", "listening"
    leaveIndex,    \* the unique index salesmanId_1_fromDate_1 exists in the store
    autoIndexed,   \* Mongoose's automatic index build for the Leave model has run
    leaves,        \* the leaves collection: a set of documents with ids
    nextLeaveId,   \* the next _id the store gives a leave
    leaveReq,      \* the leave create requests in flight, per connection
    leaveUp,       \* the last POST /upload-leaves: response and collection before/after
    now,           \* the clock new Date() reads
    leaveOp,       \* the last call of leave.approve / leave.reject: the document before and after
    leaveBalance,  \* the last call of Leave.getSalesmanLeaveBalance and what it returned
    users,         \* the users collection
    userFile,      \* the spreadsheet offered to POST /upload-users
    userUp,        \* the last POST /upload-users
    userDel,       \* the last DELETE /api/users/:salesmanId and its response
    userReq,       \* the create-user requests in flight, per connection
    otpStore,      \* server.js's otpStore: the entry per lowercased username
    otpTrail,      \* per username, the last OTP issued and what has been done with it
    otpReq,        \* the reset-password-otp requests in flight, per connection
    userDelReq,    \* the DELETE /api/users/:salesmanId in flight, between its awaits
    sales,         \* the sales collection, in insertion order
    saleFile,      \* the spreadsheet offered to POST /upload-sales
    saleUp,        \* the last POST /upload-sales
    brandStats,    \* the last call of Sale.getBrandStats and what it returned
    saleTotals,    \* the last calls of Sale.getTotalSales and Sale.getSalesByDateRange
    products,      \* the products collection, in insertion order
    productFile,   \* the workbook offered to the product import
    productUp      \* the last product import

leaveVars == <<boot, leaveIndex, autoIndexed, leaves, nextLeaveId, leaveReq, leaveUp,
              now, leaveOp, leaveBalance>>
otpVars == <<otpStore, otpTrail, otpReq>>
userVars == <<users, userFile, userUp, userDel, userReq, otpVars, userDelReq>>
saleVars == <<sales, saleFile, saleUp, brandStats, saleTotals>>
productVars == <<products, productFile, productUp>>
vars == <<boot, leaveIndex, autoIndexed, leaves, nextLeaveId, leaveReq, leaveUp,
          now, leaveOp, leaveBalance, users, userFile, userUp, userDel, userReq,
          otpStore, otpTrail, otpReq, userDelReq, sales, saleFile, saleUp, brandStats,
          saleTotals,
          products, productFile, productUp>>

(***************************************************************************)
(* Bounds of the model.                                                    *)
(***************************************************************************)
MaxLeaveId == 2
MaxClock == 3
MaxLeaveRows == 2
MaxUserRows == 2
MaxSaleRows == 2
MaxSales == 4
MaxSheets == 2
MaxSheetRows == 1
MaxStatSales == 3
MaxCascadeSales == 2

SalesmanIds == {"S1", "S2"}
Dates == {1, 2}
Slots == {1, 2}

(***************************************************************************)
(* JavaScript values.                                                      *)
(***************************************************************************)
Absent == -1
Text == -2
NaN == -3

\* Number(cell): undefined and non-numeric text give NaN.
ToNumber(c) == IF c = Absent \/ c = Text THEN NaN ELSE c

\* a || b on numbers: a unless it is falsy (0, NaN, undefined).
OrNum(a, b) == IF a = 0 \/ a = NaN \/ a = Absent THEN b ELSE a

\* a * b in JavaScript: NaN when either operand is NaN.
Times(a, b) == IF a = NaN \/ b = NaN THEN NaN ELSE a * b

\* a || b on strings and dates: a unless it is "" / undefined (0 for a date).
OrStr(a, b) == IF a = "" THEN b ELSE a
OrDate(a, b) == IF a = 0 THEN b ELSE a

\* String.prototype.toLowerCase on the strings of the model.
ToLowerCase(s) ==
    CASE s = "Alice" -> "alice"
      [] s = "Bob" -> "bob"
      [] s = "Admin" -> "admin"
      [] s = "Salesman" -> "salesman"
      [] s = "Pending" -> "pending"
      [] s = "Approved" -> "approved"
      [] s = "Rejected" -> "rejected"
      [] s = "Gokul" -> "gokul"
      [] OTHER -> s

SeqsUpTo(S, n) == UNION {[1..k -> S] : k \in 0..n}

IsPrefix(s, t) == Len(s) <= Len(t) /\ SubSeq(t, 1, Len(s)) = s

(***************************************************************************)
(* The Leave model (models/Leave.js, models/leaves.js).                    *)
(***************************************************************************)
LeaveStatusEnum == {"pending", "approved", "rejected"}

\* Schema validation of a leave document: required paths and the status enum.
LeaveValid(doc) ==
    /\ doc.salesmanId # ""
    /\ doc.salesmanName # ""
    /\ doc.fromDate # 0
    /\ doc.toDate # 0
    /\ doc.status \in LeaveStatusEnum

\* A save without the hook.
LeaveNoPreSave(doc) == doc

\* pre("save"): date is always fromDate.
LeavePreSave(doc) == [doc EXCEPT !.date = doc.fromDate]

\* The store refuses a document whose (salesmanId, fromDate) is taken, when
\* the unique index exists.
LeaveDupKey(coll, doc) ==
    /\ leaveIndex
    /\ \E l \in coll : l.salesmanId = doc.salesmanId /\ l.fromDate = doc.fromDate

LeaveStored(doc, id) ==
    [id |-> id, salesmanId |-> doc.salesmanId, salesmanName |-> doc.salesmanName,
     fromDate |-> doc.fromDate, toDate |-> doc.toDate, date |-> doc.date,
     status |-> doc.status, approvedBy |-> "", approvedAt |-> 0, rejectionReason |-> ""]

\* pre("save"): an approved leave without approvedAt gets the current time.
LeaveStampApproval(l) ==
    IF l.status = "approved" /\ l.approvedAt = 0 THEN [l EXCEPT !.approvedAt = now] ELSE l

\* Leave.create(doc) / new Leave(doc).save(): validation, the save hook, the insert.
\* The result is the collection and whether the call threw.
LeaveSave(coll, doc, id) ==
    IF ~LeaveValid(doc) THEN [ok |-> FALSE, coll |-> coll]
    ELSE IF LeaveDupKey(coll, LeavePreSave(doc)) THEN [ok |-> FALSE, coll |-> coll]
    ELSE [ok |-> TRUE,
          coll |-> coll \cup {LeaveStampApproval(LeaveStored(LeavePreSave(doc), id))}]

\* Leave.findOne({salesmanId, date}).
LeaveFindOne(coll, salesmanId, date) ==
    \E l \in coll : l.salesmanId = salesmanId /\ l.date = date

NoDuplicateLeaves(coll) ==
    \A a, b \in coll : (a.salesmanId = b.salesmanId /\ a.fromDate = b.fromDate) => a = b

(***************************************************************************)
(* Startup (server.js): the automatic index build races with the explicit  *)
(* drop of the same index; requests are served once the server listens.    *)
(***************************************************************************)
DefaultAdmin ==
    [username |-> "gokul", password |-> "admin123", name |-> "Gokul", role |-> "admin",
     salesmanId |-> ""]

\* Mongoose autoIndex for LeaveSchema.index({salesmanId, fromDate}, {unique}):
\* the build fails when the collection already holds duplicates.
AutoIndex ==
    /\ ~autoIndexed
    /\ autoIndexed' = TRUE
    /\ leaveIndex' = (leaveIndex \/ NoDuplicateLeaves(leaves))
    /\ UNCHANGED <<boot, leaves, nextLeaveId, leaveReq, leaveUp, now, leaveOp, leaveBalance>>
    /\ UNCHANGED <<userVars, saleVars, productVars>>

\* Leave.collection.dropIndex("salesmanId_1_fromDate_1"); a missing index is ignored.
DropStaleIndex ==
    /\ boot = "connected"
    /\ boot' = "dropped"
    /\ leaveIndex' = FALSE
    /\ UNCHANGED <<autoIndexed, leaves, nextLeaveId, leaveReq, leaveUp, now, leaveOp, leaveBalance>>
    /\ UNCHANGED <<userVars, saleVars, productVars>>

\* The default admin is created when no user "gokul" exists; then app.listen.
SeedAdmin ==
    /\ boot = "dropped"
    /\ boot' = "listening"
    /\ users' = IF \E u \in users : u.username = "gokul" THEN users
                ELSE users \cup {DefaultAdmin}
    /\ UNCHANGED <<leaveIndex, autoIndexed, leaves, nextLeaveId, leaveReq, leaveUp, now, leaveOp, leaveBalance>>
    /\ UNCHANGED <<userFile, userUp, userDel, userReq, otpVars, userDelReq, saleVars, productVars>>

(***************************************************************************)
(* POST /api/leaves.  The duplicate check and the insert are two awaited   *)
(* store calls: other requests run between them.                           *)
(***************************************************************************)
IdleRequest ==
    [pc |-> "idle", route |-> "", salesmanId |-> "", date |-> 0, missing |-> FALSE,
     found |-> FALSE,
     doc |-> [salesmanId |-> "", salesmanName |-> "", fromDate |-> 0, toDate |-> 0,
              date |-> 0, status |-> ""],
     status |-> 0, id |-> 0]

\* The JSON bodies clients send: the fields server.js reads, and the date
\* range and status the earlier handler passes on to the model.
LeaveBodies ==
    [salesmanId : {"", "S1"}, salesmanName : {"N"}, date : {0} \cup Dates,
     reason : {"r"}, fromDate : {0, 1}, toDate : {2}, status : {""}]

\* The bodies with the four fields server.js requires.
CompleteLeaveBodies ==
    {b \in LeaveBodies : b.salesmanId # "" /\ b.salesmanName # "" /\ b.date # 0 /\ b.reason # ""}

\* Leave's schema default for status.
LeaveDefaultStatus == "approved"

\* server.js: validate the four fields, then Leave.findOne({salesmanId, date}).
CreateLeaveCheck(s, b) ==
    /\ boot = "listening"
    /\ leaveReq[s].pc \in {"idle", "done"}
    /\ LET missing == b.salesmanId = "" \/ b.salesmanName = "" \/ b.date = 0 \/ b.reason = ""
           existing == LeaveFindOne(leaves, b.salesmanId, b.date)
           req == [IdleRequest EXCEPT !.route = "server", !.salesmanId = b.salesmanId,
                                      !.date = b.date, !.missing = missing,
                                      !.found = (~missing /\ existing),
                                      !.doc = [salesmanId |-> b.salesmanId,
                                               salesmanName |-> b.salesmanName,
                                               fromDate |-> 0, toDate |-> 0,
                                               date |-> b.date, status |-> "Pending"]]
       IN leaveReq' = [leaveReq EXCEPT ![s] =
              IF missing \/ existing
              THEN [req EXCEPT !.pc = "done", !.status = 400, !.doc = IdleRequest.doc]
              ELSE [req EXCEPT !.pc = "checked"]]
    /\ UNCHANGED <<boot, leaveIndex, autoIndexed, leaves, nextLeaveId, leaveUp, now, leaveOp, leaveBalance>>
    /\ UNCHANGED <<userVars, saleVars, productVars>>

\* server.js: Leave.create({salesmanId, salesmanName, date, reason, status: "Pending"}),
\* 201 with the document, or 500 with the error's message.
CreateLeaveInsert(s) ==
    /\ leaveReq[s].pc = "checked"
    /\ leaveReq[s].route = "server"
    /\ nextLeaveId <= MaxLeaveId
    /\ LET r == LeaveSave(leaves, leaveReq[s].doc, nextLeaveId)
       IN /\ leaves' = r.coll
          /\ nextLeaveId' = IF r.ok THEN nextLeaveId + 1 ELSE nextLeaveId
          /\ leaveReq' = [leaveReq EXCEPT ![s].pc = "done", ![s].doc = IdleRequest.doc,
                                          ![s].status = IF r.ok THEN 201 ELSE 500,
                                          ![s].id = IF r.ok THEN nextLeaveId ELSE 0]
    /\ UNCHANGED <<boot, leaveIndex, autoIndexed, leaveUp, now, leaveOp, leaveBalance>>
    /\ UNCHANGED <<userVars, saleVars, productVars>>

\* The earlier server: Leave.findOne({salesmanId: body.salesmanId, date: body.date}).
LegacyLeaveCheck(s, b) ==
    /\ boot = "listening"
    /\ leaveReq[s].pc \in {"idle", "done"}
    /\ LET existing == LeaveFindOne(leaves, b.salesmanId, b.date)
           req == [IdleRequest EXCEPT !.route = "legacy", !.salesmanId = b.salesmanId,
                                      !.date = b.date, !.found = existing,
                                      !.doc = [salesmanId |-> b.salesmanId,
                                               salesmanName |-> b.salesmanName,
                                               fromDate |-> b.fromDate, toDate |-> b.toDate,
                                               date |-> b.date,
                                               status |-> OrStr(b.status, LeaveDefaultStatus)]]
       IN leaveReq' = [leaveReq EXCEPT ![s] =
              IF existing
              THEN [req EXCEPT !.pc = "done", !.status = 400, !.doc = IdleRequest.doc]
              ELSE [req EXCEPT !.pc = "checked"]]
    /\ UNCHANGED <<boot, leaveIndex, autoIndexed, leaves, nextLeaveId, leaveUp, now, leaveOp, leaveBalance>>
    /\ UNCHANGED <<userVars, saleVars, productVars>>

\* The earlier server: new Leave(req.body).save(), 200 with the document or 500.
LegacyLeaveSave(s) ==
    /\ leaveReq[s].pc = "checked"
    /\ leaveReq[s].route = "legacy"
    /\ nextLeaveId <= MaxLeaveId
    /\ LET r == LeaveSave(leaves, leaveReq[s].doc, nextLeaveId)
       IN /\ leaves' = r.coll
          /\ nextLeaveId' = IF r.ok THEN nextLeaveId + 1 ELSE nextLeaveId
          /\ leaveReq' = [leaveReq EXCEPT ![s].pc = "done", ![s].doc = IdleRequest.doc,
                                          ![s].status = IF r.ok THEN 200 ELSE 500,
                                          ![s].id = IF r.ok THEN nextLeaveId ELSE 0]
    /\ UNCHANGED <<boot, leaveIndex, autoIndexed, leaveUp, now, leaveOp, leaveBalance>>
    /\ UNCHANGED <<userVars, saleVars, productVars>>

\* PATCH /api/leaves/:id: findByIdAndUpdate(id, {status}); update validators are off.
PatchStatuses == {"approved", "rejected", "Approved"}

UpdateLeaveStatus(id, st) ==
    /\ boot = "listening"
    /\ \E l \in leaves : l.id = id
    /\ leaves' = {IF l.id = id THEN [l EXCEPT !.status = st] ELSE l : l \in leaves}
    /\ UNCHANGED <<boot, leaveIndex, autoIndexed, nextLeaveId, leaveReq, leaveUp, now, leaveOp, leaveBalance>>
    /\ UNCHANGED <<userVars, saleVars, productVars>>

\* DELETE /api/leaves/:id.
DeleteLeave(id) ==
    /\ boot = "listening"
    /\ \E l \in leaves : l.id = id
    /\ leaves' = {l \in leaves : l.id # id}
    /\ UNCHANGED <<boot, leaveIndex, autoIndexed, nextLeaveId, leaveReq, leaveUp, now, leaveOp, leaveBalance>>
    /\ UNCHANGED <<userVars, saleVars, productVars>>

(***************************************************************************)
(* The instance methods of a leave (models/Leave.js): approve and reject   *)
(* assign the fields and save the document.                                *)
(***************************************************************************)
Admins == {"gokul", "admin2"}
Reasons == {"no cover"}

NoLeaveOp == [op |-> "none", before |-> <<>>, after |-> <<>>]

\* this.save() on a stored document: validation, the save hooks, the update.
LeaveResave(l) ==
    IF ~LeaveValid(l) THEN [ok |-> FALSE, doc |-> l]
    ELSE [ok |-> TRUE, doc |-> LeaveStampApproval(LeavePreSave(l))]

\* leave.approve(adminUsername).
Approve(l, adminUsername) ==
    LeaveResave([l EXCEPT !.status = "approved", !.approvedBy = adminUsername,
                          !.approvedAt = now, !.rejectionReason = ""])

\* leave.reject(adminUsername, reason).
Reject(l, adminUsername, reason) ==
    LeaveResave([l EXCEPT !.status = "rejected", !.approvedBy = adminUsername,
                          !.rejectionReason = reason, !.approvedAt = now])

ApproveLeave(id, adminUsername) ==
    /\ boot = "listening"
    /\ \E l \in leaves : l.id = id
    /\ LET l == CHOOSE x \in leaves : x.id = id
           r == Approve(l, adminUsername)
       IN /\ leaves' = IF r.ok THEN (leaves \ {l}) \cup {r.doc} ELSE leaves
          /\ leaveOp' = [op |-> "approve", before |-> l,
                         after |-> IF r.ok THEN r.doc ELSE l]
    /\ UNCHANGED <<boot, leaveIndex, autoIndexed, nextLeaveId, leaveReq, leaveUp, now, leaveBalance>>
    /\ UNCHANGED <<userVars, saleVars, productVars>>

RejectLeave(id, adminUsername, reason) ==
    /\ boot = "listening"
    /\ \E l \in leaves : l.id = id
    /\ LET l == CHOOSE x \in leaves : x.id = id
           r == Reject(l, adminUsername, reason)
       IN /\ leaves' = IF r.ok THEN (leaves \ {l}) \cup {r.doc} ELSE leaves
          /\ leaveOp' = [op |-> "reject", before |-> l,
                         after |-> IF r.ok THEN r.doc ELSE l]
    /\ UNCHANGED <<boot, leaveIndex, autoIndexed, nextLeaveId, leaveReq, leaveUp, now, leaveBalance>>
    /\ UNCHANGED <<userVars, saleVars, productVars>>

\* Time passes between requests.
Tick ==
    /\ now < MaxClock
    /\ now' = now + 1
    /\ UNCHANGED <<boot, leaveIndex, autoIndexed, leaves, nextLeaveId, leaveReq, leaveUp,
                   leaveOp, leaveBalance>>
    /\ UNCHANGED <<userVars, saleVars, productVars>>

(***************************************************************************)
(* Leave.getSalesmanLeaveBalance (models/Leave.js).  Dates are day numbers *)
(* counted from 1 January 2023.                                            *)
(***************************************************************************)
\* The year a "YYYY-MM-DD" string starts with.
YearOf(date) == IF date <= 365 THEN 2023 ELSE 2024

Years == {2023, 2024}

\* find({salesmanId, status: "approved", fromDate: {$regex: `^${year}`}}).
FindApproved(coll, salesmanId, year) ==
    {l \in coll : l.salesmanId = salesmanId /\ l.status = "approved"
                  /\ YearOf(l.fromDate) = year}

\* Math.ceil((to - from) / (1000 * 60 * 60 * 24)) + 1 on two dates.
DaysOfLeave(l) == (l.toDate - l.fromDate) + 1

RECURSIVE TotalDays(_)
TotalDays(found) ==
    IF found = {} THEN 0
    ELSE LET l == CHOOSE x \in found : TRUE
         IN DaysOfLeave(l) + TotalDays(found \ {l})

NoLeaveBalance == [asked |-> FALSE, salesmanId |-> "", year |-> 0, result |-> 0]

GetSalesmanLeaveBalance(salesmanId, year) ==
    /\ boot = "listening"
    /\ leaveBalance' = [asked |-> TRUE, salesmanId |-> salesmanId, year |-> year,
                        result |-> TotalDays(FindApproved(leaves, salesmanId, year))]
    /\ UNCHANGED <<boot, leaveIndex, autoIndexed, leaves, nextLeaveId, leaveReq, leaveUp,
                   now, leaveOp>>
    /\ UNCHANGED <<userVars, saleVars, productVars>>

(***************************************************************************)
(* POST /upload-leaves (routes/uploadLeaves.js).                           *)
(***************************************************************************)
LeaveRows ==
    [SalesmanID : {"", "S1"}, Salesman : {"N"}, FromDate : {0, 2}, fromDate : {0},
     ToDate : {0, 1}, toDate : {0}, Status : {"", "Pending", "late"}]

LeaveFiles == SeqsUpTo(LeaveRows, MaxLeaveRows)

\* rows.map: one document per row.
LeaveRowToDoc(r) ==
    LET fromDate == OrDate(r.FromDate, r.fromDate)
    IN [salesmanId |-> OrStr(r.SalesmanID, "unknown"),
        salesmanName |-> OrStr(r.Salesman, "Unknown"),
        fromDate |-> fromDate,
        toDate |-> OrDate(OrDate(r.ToDate, r.toDate), fromDate),
        date |-> fromDate,
        status |-> OrStr(ToLowerCase(r.Status), "approved")]

\* The store's ordered insert: documents go in one by one until one is refused.
RECURSIVE InsertLeavesOrdered(_, _, _)
InsertLeavesOrdered(coll, docs, id) ==
    IF docs = <<>> THEN [ok |-> TRUE, coll |-> coll]
    ELSE IF LeaveDupKey(coll, Head(docs)) THEN [ok |-> FALSE, coll |-> coll]
    ELSE InsertLeavesOrdered(coll \cup {LeaveStored(Head(docs), id)}, Tail(docs), id + 1)

\* Leave.insertMany(docs): Mongoose validates every document first and sends
\* nothing when one fails; save hooks do not run.
LeaveInsertMany(coll, docs, id) ==
    IF \E i \in 1..Len(docs) : ~LeaveValid(docs[i]) THEN [ok |-> FALSE, coll |-> coll]
    ELSE InsertLeavesOrdered(coll, docs, id)

NoLeaveUpload == [status |-> 0, count |-> 0, stored |-> 0, valid |-> 0, tempFile |-> "none"]

UploadLeaves(file) ==
    /\ boot = "listening"
    /\ nextLeaveId + Len(file) - 1 <= MaxLeaveId
    /\ LET docs == [i \in 1..Len(file) |-> LeaveRowToDoc(file[i])]
           r == LeaveInsertMany(leaves, docs, nextLeaveId)
           stored == Cardinality(r.coll) - Cardinality(leaves)
           valid == Cardinality({i \in 1..Len(docs) : LeaveValid(docs[i])})
       IN IF Len(file) = 0
          THEN /\ leaveUp' = [status |-> 400, count |-> 0, stored |-> 0, valid |-> 0,
                            tempFile |-> "kept"]
               /\ UNCHANGED <<leaves, nextLeaveId>>
          ELSE /\ leaves' = r.coll
               /\ nextLeaveId' = nextLeaveId + stored
               /\ leaveUp' = [status |-> IF r.ok THEN 200 ELSE 500,
                              count |-> IF r.ok THEN Len(docs) ELSE 0,
                              stored |-> stored, valid |-> valid, tempFile |-> "kept"]
    /\ UNCHANGED <<boot, leaveIndex, autoIndexed, leaveReq, now, leaveOp, leaveBalance>>
    /\ UNCHANGED <<userVars, saleVars, productVars>>


(***************************************************************************)
(* The User model (models/User.js) and the user routes of server.js.       *)
(***************************************************************************)
UserRoleEnum == {"admin", "salesman"}

\* The schema setters of a user document: username and role are lowercased.
UserSetters(doc) ==
    [doc EXCEPT !.username = ToLowerCase(doc.username), !.role = ToLowerCase(doc.role)]

\* Required paths and the role enum.
UserValid(doc) ==
    /\ doc.username # ""
    /\ doc.password # ""
    /\ doc.name # ""
    /\ doc.role \in UserRoleEnum

\* A schema without the save hook.
NoPreSave(doc) == TRUE

\* pre("save"): a salesman must have a salesmanId.
UserPreSave(doc) == ~(doc.role = "salesman" /\ doc.salesmanId = "")

\* The unique index on username and the unique sparse index on salesmanId.
UserDupKey(coll, doc) ==
    \E u \in coll : \/ u.username = doc.username
                    \/ (doc.salesmanId # "" /\ u.salesmanId = doc.salesmanId)

\* User.create(doc): the collection and whether the call threw.
UserCreate(coll, doc) ==
    LET d == UserSetters(doc)
    IN IF ~UserValid(d) \/ ~UserPreSave(d) \/ UserDupKey(coll, d)
       THEN [ok |-> FALSE, coll |-> coll]
       ELSE [ok |-> TRUE, coll |-> coll \cup {d}]

\* User.findOne({username}): the filter is cast with the schema's setters.
UserFindOne(coll, username) == \E u \in coll : u.username = ToLowerCase(username)

UserBodies ==
    [username : {"", "alice", "bob"}, password : {"pw"}, name : {"N"},
     role : {"admin", "salesman", "Salesman"}, salesmanId : {"", "S1"}]

\* POST /api/users: 400 on a missing field or a taken username, else User.create.
CreateUser(b) ==
    /\ boot = "listening"
    /\ LET missing == b.username = "" \/ b.password = "" \/ b.name = "" \/ b.role = ""
           doc == [username |-> b.username, password |-> b.password, name |-> b.name,
                   role |-> b.role,
                   salesmanId |-> IF b.role = "salesman" THEN b.salesmanId ELSE ""]
       IN users' = IF missing \/ UserFindOne(users, b.username) THEN users
                   ELSE UserCreate(users, doc).coll
    /\ UNCHANGED <<userFile, userUp, userDel, userReq, otpVars, userDelReq>>
    /\ UNCHANGED <<leaveVars, saleVars, productVars>>

\* POST /api/users as the two awaited store calls it makes: other requests
\* run between User.findOne and User.create.  taken tells that the username
\* was in the store when User.create ran.
IdleUserRequest ==
    [pc |-> "idle", username |-> "", role |-> "", salesmanId |-> "", status |-> 0,
     taken |-> FALSE]

CreateUserCheck(s, b) ==
    /\ boot = "listening"
    /\ userReq[s].pc \in {"idle", "done"}
    /\ LET missing == b.username = "" \/ b.password = "" \/ b.name = "" \/ b.role = ""
           exists == UserFindOne(users, b.username)
           req == [IdleUserRequest EXCEPT !.username = b.username, !.role = b.role,
                                          !.salesmanId = b.salesmanId]
       IN userReq' = [userReq EXCEPT ![s] =
              IF missing THEN [req EXCEPT !.pc = "done", !.status = 400]
              ELSE IF exists THEN [req EXCEPT !.pc = "done", !.status = 400, !.taken = TRUE]
              ELSE [req EXCEPT !.pc = "checked"]]
    /\ UNCHANGED <<users, userFile, userUp, userDel, otpVars, userDelReq>>
    /\ UNCHANGED <<leaveVars, saleVars, productVars>>

\* User.create, then 201; the catch block answers 500 "Failed to add user".
CreateUserInsert(s) ==
    /\ userReq[s].pc = "checked"
    /\ LET q == userReq[s]
           c == UserCreate(users, [username |-> q.username, password |-> "pw", name |-> "N",
                                   role |-> q.role,
                                   salesmanId |-> IF q.role = "salesman" THEN q.salesmanId
                                                  ELSE ""])
       IN /\ users' = c.coll
          /\ userReq' = [userReq EXCEPT ![s].pc = "done",
                                        ![s].status = IF c.ok THEN 201 ELSE 500,
                                        ![s].taken = UserFindOne(users, q.username)]
    /\ UNCHANGED <<userFile, userUp, userDel, otpVars, userDelReq>>
    /\ UNCHANGED <<leaveVars, saleVars, productVars>>

\* The earlier server's POST /api/users: the role is lowercased before it is
\* compared and stored.
LegacyCreateUser(b) ==
    /\ boot = "listening"
    /\ LET missing == b.username = "" \/ b.password = "" \/ b.name = "" \/ b.role = ""
           role == ToLowerCase(b.role)
           doc == [username |-> b.username, password |-> b.password, name |-> b.name,
                   role |-> role,
                   salesmanId |-> IF role = "salesman" THEN b.salesmanId ELSE ""]
       IN users' = IF missing \/ UserFindOne(users, b.username) THEN users
                   ELSE UserCreate(users, doc).coll
    /\ UNCHANGED <<userFile, userUp, userDel, userReq, otpVars, userDelReq>>
    /\ UNCHANGED <<leaveVars, saleVars, productVars>>

\* PUT /api/users/:salesmanId/password: findOneAndUpdate({salesmanId}, {password}).
ResetPassword(salesmanId, password) ==
    /\ boot = "listening"
    /\ password # ""
    /\ \E u \in users : u.salesmanId = salesmanId
    /\ LET u == CHOOSE u \in users : u.salesmanId = salesmanId
       IN users' = (users \ {u}) \cup {[u EXCEPT !.password = password]}
    /\ UNCHANGED <<userFile, userUp, userDel, userReq, otpVars, userDelReq>>
    /\ UNCHANGED <<leaveVars, saleVars, productVars>>

NoUserDelete == [salesmanId |-> "", status |-> 0]

\* A delete that leaves the salesman's sales.
KeepSalesOf(coll, salesmanId) == coll

\* Sale.deleteMany({salesmanId}).
DeleteSalesOf(coll, salesmanId) == SelectSeq(coll, LAMBDA x : x.salesmanId # salesmanId)

\* DELETE /api/users/:salesmanId: User.deleteOne, then the salesman's sales
\* and leaves; the answer is success whether or not a user matched.
DeleteUser(salesmanId) ==
    /\ boot = "listening"
    /\ \/ \E u \in users : u.salesmanId = salesmanId /\ users' = users \ {u}
       \/ (~ \E u \in users : u.salesmanId = salesmanId) /\ users' = users
    /\ sales' = DeleteSalesOf(sales, salesmanId)
    /\ leaves' = {l \in leaves : l.salesmanId # salesmanId}
    /\ userDel' = [salesmanId |-> salesmanId, status |-> 200]
    /\ UNCHANGED <<userFile, userUp, userReq, otpVars, userDelReq, saleFile, saleUp, brandStats, saleTotals,
                   productVars>>
    /\ UNCHANGED <<boot, leaveIndex, autoIndexed, nextLeaveId, leaveReq, leaveUp, now, leaveOp, leaveBalance>>

\* The earlier server's DELETE /api/users/:salesmanId: 404 without a user of
\* that salesmanId, 400 when the user is no salesman, else the same cascade.
LegacyDeleteUser(salesmanId) ==
    /\ boot = "listening"
    /\ IF ~ \E u \in users : u.salesmanId = salesmanId
       THEN /\ userDel' = [salesmanId |-> salesmanId, status |-> 404]
            /\ UNCHANGED <<users, sales, leaves>>
       ELSE \E u \in users :
               /\ u.salesmanId = salesmanId
               /\ IF u.role # "salesman"
                  THEN /\ userDel' = [salesmanId |-> salesmanId, status |-> 400]
                       /\ UNCHANGED <<users, sales, leaves>>
                  ELSE /\ users' = users \ {u}
                       /\ sales' = DeleteSalesOf(sales, salesmanId)
                       /\ leaves' = {l \in leaves : l.salesmanId # salesmanId}
                       /\ userDel' = [salesmanId |-> salesmanId, status |-> 200]
    /\ UNCHANGED <<userFile, userUp, userReq, otpVars, userDelReq, saleFile, saleUp, brandStats, saleTotals,
                   productVars>>
    /\ UNCHANGED <<boot, leaveIndex, autoIndexed, nextLeaveId, leaveReq, leaveUp, now, leaveOp, leaveBalance>>

(***************************************************************************)
(* POST /upload-users (routes/uploadUsers.js).                             *)
(***************************************************************************)
UserRowDomain ==
    [Username : {"", "alice", "Alice", "bob"}, Password : {"", "pw"}, Name : {"N"},
     Role : {"", "admin", "Salesman"}, SalesmanId : {"", "S1"}]

\* The rows of the model: every complete row, and a few rows that lack columns.
UserRows ==
    {r \in UserRowDomain :
        \/ r.Username # "" /\ r.Password # "" /\ r.Role # ""
        \/ /\ Cardinality({f \in {r.Username, r.Password, r.Role} : f = ""}) = 1
           /\ r.Username \in {"", "alice"} /\ r.Role \in {"", "admin"} /\ r.SalesmanId = ""}

UserFiles == SeqsUpTo(UserRows, MaxUserRows)

\* The loop turn without the count of an incomplete row.
UploadUserRowUncounted(acc, r) ==
    IF ~acc.ok THEN acc
    ELSE IF r.Username = "" \/ r.Password = "" \/ r.Name = "" \/ r.Role = ""
    THEN acc
    ELSE IF UserFindOne(acc.coll, r.Username)
    THEN [acc EXCEPT !.skipped = @ + 1]
    ELSE LET role == ToLowerCase(r.Role)
             c == UserCreate(acc.coll,
                             [username |-> r.Username, password |-> r.Password,
                              name |-> r.Name, role |-> role,
                              salesmanId |-> IF role = "salesman" THEN r.SalesmanId ELSE ""])
         IN IF c.ok THEN [acc EXCEPT !.coll = c.coll, !.inserted = @ + 1]
            ELSE [acc EXCEPT !.ok = FALSE]

\* The loop turn that overwrites the user of a taken username.
UploadUserRowUpsert(acc, r) ==
    IF ~acc.ok THEN acc
    ELSE IF r.Username = "" \/ r.Password = "" \/ r.Name = "" \/ r.Role = ""
    THEN [acc EXCEPT !.skipped = @ + 1]
    ELSE LET role == ToLowerCase(r.Role)
             doc == [username |-> ToLowerCase(r.Username), password |-> r.Password,
                     name |-> r.Name, role |-> role,
                     salesmanId |-> IF role = "salesman" THEN r.SalesmanId ELSE ""]
         IN [acc EXCEPT !.coll = {u \in acc.coll : u.username # doc.username} \cup {doc},
                        !.inserted = @ + 1]

\* One turn of the loop over the rows.  acc is the collection, the two
\* counters, and whether an awaited call has thrown.
UploadUserRow(acc, r) ==
    IF ~acc.ok THEN acc
    ELSE IF r.Username = "" \/ r.Password = "" \/ r.Name = "" \/ r.Role = ""
    THEN [acc EXCEPT !.skipped = @ + 1]
    ELSE IF UserFindOne(acc.coll, r.Username)
    THEN [acc EXCEPT !.skipped = @ + 1]
    ELSE LET role == ToLowerCase(r.Role)
             c == UserCreate(acc.coll,
                             [username |-> r.Username, password |-> r.Password,
                              name |-> r.Name, role |-> role,
                              salesmanId |-> IF role = "salesman" THEN r.SalesmanId ELSE ""])
         IN IF c.ok THEN [acc EXCEPT !.coll = c.coll, !.inserted = @ + 1]
            ELSE [acc EXCEPT !.ok = FALSE]

RECURSIVE UploadUserRows(_, _)
UploadUserRows(acc, rows) ==
    IF rows = <<>> THEN acc ELSE UploadUserRows(UploadUserRow(acc, Head(rows)), Tail(rows))

NoUserUpload ==
    [status |-> 0, inserted |-> 0, skipped |-> 0, totalRows |-> 0,
     before |-> {}, after |-> {}, repeat |-> FALSE, tempFile |-> "none"]

\* The handler: the summary on success, 500 when a call threw.  repeat tells
\* that the collection was as the previous import of the file left it.
UploadUsers ==
    /\ boot = "listening"
    /\ LET r == UploadUserRows([ok |-> TRUE, coll |-> users, inserted |-> 0, skipped |-> 0],
                               userFile)
       IN /\ users' = r.coll
          /\ userUp' = [status |-> IF r.ok THEN 200 ELSE 500,
                        inserted |-> IF r.ok THEN r.inserted ELSE 0,
                        skipped |-> IF r.ok THEN r.skipped ELSE 0,
                        totalRows |-> IF r.ok THEN Len(userFile) ELSE 0,
                        before |-> users, after |-> r.coll,
                        repeat |-> (userUp.status # 0 /\ users = userUp.after),
                        tempFile |-> "kept"]
    /\ UNCHANGED <<userFile, userDel, userReq, otpVars, userDelReq>>
    /\ UNCHANGED <<leaveVars, saleVars, productVars>>

(***************************************************************************)
(* The Sale model (models/Sale.js, the schema with the save hook) and the  *)
(* sale routes.  A stored sale carries one field that the program does not *)
(* have: supplied, whether the client's input gave a total amount.         *)
(***************************************************************************)
IsNumber(v) == v >= 0

\* A JavaScript value used as a condition.
Truthy(v) == v # 0 /\ v # NaN /\ v # Absent

\* Casts and validators of the schema: required strings, quantity >= 1,
\* price >= 0, an optional totalAmount >= 0.  NaN and text do not cast to Number.
SaleValid(doc) ==
    /\ doc.salesmanId # ""
    /\ doc.salesmanName # ""
    /\ doc.date # 0
    /\ doc.brand # ""
    /\ doc.itemCode # ""
    /\ IsNumber(doc.quantity) /\ doc.quantity >= 1
    /\ IsNumber(doc.price)
    /\ (doc.totalAmount = Absent \/ IsNumber(doc.totalAmount))

\* pre("save"): the total is computed when quantity and price are truthy
\* and the total is not.
SalePreSave(doc) ==
    IF Truthy(doc.quantity) /\ Truthy(doc.price) /\ ~Truthy(doc.totalAmount)
    THEN [doc EXCEPT !.totalAmount = doc.quantity * doc.price]
    ELSE doc

\* Sale.create(doc) / new Sale(doc).save().
SaleSave(coll, doc) ==
    IF SaleValid(doc) THEN [ok |-> TRUE, coll |-> Append(coll, SalePreSave(doc))]
    ELSE [ok |-> FALSE, coll |-> coll]

SaleBodies ==
    [salesmanId : {"S1"}, salesmanName : {"N"}, date : {1}, brand : {"", "B"},
     itemCode : {"I"}, quantity : {Absent, 2}, price : {0, 50}, totalAmount : {Absent}]

SaleDoc(b, total) ==
    [salesmanId |-> b.salesmanId, salesmanName |-> b.salesmanName, date |-> b.date,
     brand |-> b.brand, itemCode |-> b.itemCode, quantity |-> ToNumber(b.quantity),
     price |-> ToNumber(b.price), totalAmount |-> total,
     supplied |-> (b.totalAmount # Absent)]

\* server.js POST /api/sales: 400 on a falsy field, else Sale.create with
\* totalAmount: Number(totalAmount || quantity * price).
CreateSale(b) ==
    /\ boot = "listening"
    /\ Len(sales) < MaxSales
    /\ LET missing == \/ b.salesmanId = "" \/ b.salesmanName = "" \/ b.date = 0
                      \/ b.brand = "" \/ b.itemCode = ""
                      \/ ~Truthy(b.quantity) \/ ~Truthy(b.price)
           total == OrNum(b.totalAmount, Times(b.quantity, b.price))
       IN sales' = IF missing THEN sales ELSE SaleSave(sales, SaleDoc(b, total)).coll
    /\ UNCHANGED <<saleFile, saleUp, brandStats, saleTotals>>
    /\ UNCHANGED <<leaveVars, userVars, productVars>>

\* The earlier server's POST /api/sales: new Sale(req.body).save().
SaveSale(b) ==
    /\ boot = "listening"
    /\ Len(sales) < MaxSales
    /\ sales' = SaleSave(sales, [SaleDoc(b, b.totalAmount) EXCEPT !.quantity = b.quantity,
                                                                  !.price = b.price]).coll
    /\ UNCHANGED <<saleFile, saleUp, brandStats, saleTotals>>
    /\ UNCHANGED <<leaveVars, userVars, productVars>>

\* DELETE /api/sales/:id, the sale being the i-th of the collection.
DeleteSale(i) ==
    /\ boot = "listening"
    /\ i \in 1..Len(sales)
    /\ sales' = [j \in 1..(Len(sales) - 1) |-> IF j < i THEN sales[j] ELSE sales[j + 1]]
    /\ UNCHANGED <<saleFile, saleUp, brandStats, saleTotals>>
    /\ UNCHANGED <<leaveVars, userVars, productVars>>

(***************************************************************************)
(* Sale.getBrandStats(startDate, endDate) (models/Sale.js): the            *)
(* aggregation $match, $group by brand, $sort by totalSales descending.    *)
(***************************************************************************)
RECURSIVE SeqSum(_)
SeqSum(s) == IF s = <<>> THEN 0 ELSE Head(s) + SeqSum(Tail(s))

\* $sum takes a value that is not a number as 0.
NumOrZero(v) == IF IsNumber(v) THEN v ELSE 0

\* The aggregation without its $match stage.
AllSales(coll, startDate, endDate) == coll

\* $match: the date range is a condition only when both dates are given.
MatchSales(coll, startDate, endDate) ==
    IF startDate # 0 /\ endDate # 0
    THEN SelectSeq(coll, LAMBDA x : x.date >= startDate /\ x.date <= endDate)
    ELSE coll

\* $group: the entry of one brand.
BrandGroup(m, brand) ==
    LET g == SelectSeq(m, LAMBDA x : x.brand = brand)
    IN [id |-> brand,
        totalSales |-> SeqSum([i \in 1..Len(g) |-> NumOrZero(g[i].totalAmount)]),
        totalQuantity |-> SeqSum([i \in 1..Len(g) |-> NumOrZero(g[i].quantity)]),
        transactionCount |-> Len(g)]

BrandGroups(m) == {BrandGroup(m, m[i].brand) : i \in 1..Len(m)}

\* $sort: every order of the entries with totalSales descending; the order
\* of entries with equal totals is the store's choice.
SortedByTotalSales(groups) ==
    {res \in [1..Cardinality(groups) -> groups] :
        /\ \A i, j \in 1..Cardinality(groups) : i # j => res[i] # res[j]
        /\ \A i, j \in 1..Cardinality(groups) :
               i < j => res[i].totalSales >= res[j].totalSales}

NoBrandStats == [asked |-> FALSE, startDate |-> 0, endDate |-> 0, over |-> <<>>, result |-> <<>>]

\* A call of getBrandStats; over is the collection it ran on.
GetBrandStats(startDate, endDate) ==
    /\ boot = "listening"
    /\ \E res \in SortedByTotalSales(BrandGroups(MatchSales(sales, startDate, endDate))) :
          brandStats' = [asked |-> TRUE, startDate |-> startDate, endDate |-> endDate,
                         over |-> sales, result |-> res]
    /\ UNCHANGED <<sales, saleFile, saleUp, saleTotals>>
    /\ UNCHANGED <<leaveVars, userVars, productVars>>

(***************************************************************************)
(* Sale.getSalesByDateRange and Sale.getTotalSales (models/Sale.js).       *)
(***************************************************************************)
\* getSalesByDateRange's query: both dates, a start only, an end only, none.
RangeQuery(x, salesmanId, startDate, endDate) ==
    /\ x.salesmanId = salesmanId
    /\ IF startDate # 0 /\ endDate # 0 THEN x.date >= startDate /\ x.date <= endDate
       ELSE IF startDate # 0 THEN x.date >= startDate
       ELSE IF endDate # 0 THEN x.date <= endDate
       ELSE TRUE

\* getTotalSales's query: the dates are a condition only when both are given.
TotalQuery(x, salesmanId, startDate, endDate) ==
    /\ x.salesmanId = salesmanId
    /\ (startDate # 0 /\ endDate # 0) => (x.date >= startDate /\ x.date <= endDate)

\* find(query).sort({date: -1}): every order of the matches with date
\* descending; the order of sales of one date is the store's choice.
GetSalesByDateRange(coll, salesmanId, startDate, endDate) ==
    LET I == {i \in 1..Len(coll) : RangeQuery(coll[i], salesmanId, startDate, endDate)}
    IN {[k \in 1..Cardinality(I) |-> coll[p[k]]] :
            p \in {q \in [1..Cardinality(I) -> I] :
                      /\ \A i, j \in 1..Cardinality(I) : i # j => q[i] # q[j]
                      /\ \A i, j \in 1..Cardinality(I) :
                             i < j => coll[q[i]].date >= coll[q[j]].date}}

\* aggregate $match, $group {_id: null, total, count}; result[0] || {total: 0, count: 0}.
GetTotalSales(coll, salesmanId, startDate, endDate) ==
    LET m == SelectSeq(coll, LAMBDA x : TotalQuery(x, salesmanId, startDate, endDate))
    IN IF m = <<>> THEN [total |-> 0, count |-> 0]
       ELSE [total |-> SeqSum([i \in 1..Len(m) |-> NumOrZero(m[i].totalAmount)]),
             count |-> Len(m)]

NoSaleTotals ==
    [asked |-> FALSE, salesmanId |-> "", startDate |-> 0, endDate |-> 0,
     totals |-> [total |-> 0, count |-> 0], range |-> <<>>]

\* The two statics called with the same arguments on the same collection.
QuerySales(salesmanId, startDate, endDate) ==
    /\ boot = "listening"
    /\ \E range \in GetSalesByDateRange(sales, salesmanId, startDate, endDate) :
          saleTotals' = [asked |-> TRUE, salesmanId |-> salesmanId,
                         startDate |-> startDate, endDate |-> endDate,
                         totals |-> GetTotalSales(sales, salesmanId, startDate, endDate),
                         range |-> range]
    /\ UNCHANGED <<sales, saleFile, saleUp, brandStats>>
    /\ UNCHANGED <<leaveVars, userVars, productVars>>

(***************************************************************************)
(* POST /upload-sales: routes/uploadSales.js, and the earlier route with   *)
(* fallback values.                                                        *)
(***************************************************************************)
SaleRows ==
    [Salesman_ID : {"S1"}, SalesmanID : {"S1"}, Salesman : {"N"}, Date : {1},
     Brand : {"", "B"}, Item_Code : {"I"}, Quantity : {2, Text}, Price : {Absent},
     RSP_VAT : {50}, Total_Amount : {Absent, 100}]

SaleFiles == SeqsUpTo(SaleRows, MaxSaleRows)

\* routes/uploadSales.js, rows.map.
SaleRowToDoc(r) ==
    [salesmanId |-> OrStr(r.Salesman_ID, r.Salesman), salesmanName |-> r.Salesman,
     date |-> r.Date, brand |-> r.Brand, itemCode |-> r.Item_Code,
     quantity |-> ToNumber(r.Quantity), price |-> ToNumber(r.RSP_VAT),
     totalAmount |-> ToNumber(r.Total_Amount), supplied |-> (r.Total_Amount # Absent)]

\* The earlier route, rows.map with its fallbacks.
LegacySaleRowToDoc(r) ==
    LET quantity == OrNum(ToNumber(r.Quantity), 1)
        price == OrNum(ToNumber(r.Price), OrNum(ToNumber(r.RSP_VAT), 0))
    IN [salesmanId |-> OrStr(r.SalesmanID, "unknown"),
        salesmanName |-> OrStr(r.Salesman, "Unknown"),
        date |-> r.Date, brand |-> r.Brand, itemCode |-> r.Item_Code,
        quantity |-> quantity, price |-> price,
        totalAmount |-> OrNum(ToNumber(r.Total_Amount), Times(quantity, price)),
        supplied |-> (r.Total_Amount # Absent)]

\* An import that replaces the collection.
ReplaceSales(coll, docs) == docs

\* What an import does with the documents it is allowed to insert.
StoreSales(coll, docs) == coll \o docs

\* Sale.insertMany(docs, {ordered: false}): the invalid documents are left
\* out without an error, the others are inserted.
SaleInsertUnordered(coll, docs) == StoreSales(coll, SelectSeq(docs, SaleValid))

\* Sale.insertMany(docs): one invalid document rejects the call and nothing
\* is inserted.
SaleInsertOrdered(coll, docs) ==
    IF \E i \in 1..Len(docs) : ~SaleValid(docs[i]) THEN [ok |-> FALSE, coll |-> coll]
    ELSE [ok |-> TRUE, coll |-> StoreSales(coll, docs)]

NoSaleUpload ==
    [status |-> 0, count |-> 0, route |-> "", before |-> <<>>, after |-> <<>>,
     repeat |-> FALSE, base |-> 0, tempFile |-> "none"]

\* repeat: the collection was as the previous import left it; base: the size
\* of the collection before the first of two such imports.
SaleUpload(status, count, route, after) ==
    LET repeat == saleUp.status # 0 /\ sales = saleUp.after
    IN [status |-> status, count |-> count, route |-> route, before |-> sales,
        after |-> after, repeat |-> repeat,
        base |-> IF repeat THEN Len(saleUp.before) ELSE Len(sales),
        tempFile |-> "kept"]

\* routes/uploadSales.js.
UploadSales ==
    /\ boot = "listening"
    /\ Len(sales) + Len(saleFile) <= MaxSales
    /\ LET docs == [i \in 1..Len(saleFile) |-> SaleRowToDoc(saleFile[i])]
           after == SaleInsertUnordered(sales, docs)
       IN /\ sales' = after
          /\ saleUp' = SaleUpload(200, Len(docs), "routes", after)
    /\ UNCHANGED <<saleFile, brandStats, saleTotals>>
    /\ UNCHANGED <<leaveVars, userVars, productVars>>

\* The earlier route: 400 on an empty sheet.
LegacyUploadSales ==
    /\ boot = "listening"
    /\ Len(sales) + Len(saleFile) <= MaxSales
    /\ LET docs == [i \in 1..Len(saleFile) |-> LegacySaleRowToDoc(saleFile[i])]
           r == SaleInsertOrdered(sales, docs)
       IN IF Len(saleFile) = 0
          THEN /\ saleUp' = SaleUpload(400, 0, "legacy", sales)
               /\ UNCHANGED sales
          ELSE /\ sales' = r.coll
               /\ saleUp' = SaleUpload(IF r.ok THEN 200 ELSE 500,
                                       IF r.ok THEN Len(docs) ELSE 0, "legacy", r.coll)
    /\ UNCHANGED <<saleFile, brandStats, saleTotals>>
    /\ UNCHANGED <<leaveVars, userVars, productVars>>

(***************************************************************************)
(* The Product model (models/Product.js) and the three product imports:    *)
(* routes/uploadProducts.js, the /upload-excel route and the import        *)
(* script.  A workbook is a sequence of sheets, a sheet a name and rows.   *)
(***************************************************************************)
EmptyString == -4
Null == -5

\* Mongoose's cast to Number: "" becomes null, NaN and text are refused.
Castable(v) == v # NaN /\ v # Text
CastNumber(v) == IF v = EmptyString THEN Null ELSE v

ProductValid(doc) ==
    Castable(doc.modelNumber) /\ Castable(doc.itemCode) /\ Castable(doc.rspVat)

ProductCast(doc) ==
    [doc EXCEPT !.modelNumber = CastNumber(doc.modelNumber),
                !.itemCode = CastNumber(doc.itemCode),
                !.rspVat = CastNumber(doc.rspVat)]

CastAll(docs) == [i \in 1..Len(docs) |-> ProductCast(docs[i])]

\* Product.insertMany(docs) on the emptied collection: one document that
\* does not cast rejects the call and nothing is inserted.
ProductInsertMany(docs) ==
    IF \E i \in 1..Len(docs) : ~ProductValid(docs[i]) THEN [ok |-> FALSE, coll |-> <<>>]
    ELSE [ok |-> TRUE, coll |-> CastAll(docs)]

SheetNames == <<"Sheet1", "Sony", "LG">>

\* The columns of a sheet.  Item_Code is the header "Item Code", item_code
\* "item code", Model_ "Model ", Model_no "Model no.", model_number "model number",
\* RSP_Vat_ " RSP+Vat ", RSP_Vat "RSP+Vat", RSP_VAT "RSP + VAT".
OtherSpellings ==
    [brand : {""}, itemCode : {Absent}, item_code : {Absent}, Model_ : {Absent},
     modelNumber : {Absent}, Model_no : {Absent}, model_number : {Absent},
     RSP_Vat_ : {Absent}, rspVat : {Absent}, RSP_VAT : {Absent}]

\* The two records in one.
Merge(r, o) == [k \in DOMAIN r \cup DOMAIN o |-> IF k \in DOMAIN r THEN r[k] ELSE o[k]]

ProductRows ==
    {Merge(r, o) : r \in [Brand : {"", "LG"}, Item_Code : {Absent, 7}, Model : {5, Text},
                          RSP_Vat : {50}],
                   o \in OtherSpellings}

\* a || b on cells: a unless it is falsy (undefined, 0, NaN, "").
OrCell(a, b) == IF a = Absent \/ a = 0 \/ a = NaN \/ a = EmptyString THEN b ELSE a

\* String(cell): a number keeps its digits, text stays text.
ToStr(c) == IF c = Absent THEN Text ELSE c

Sheets == SeqsUpTo(ProductRows, MaxSheetRows)

Workbooks == UNION {[1..k -> Sheets] : k \in 1..MaxSheets}

RECURSIVE Flatten(_)
Flatten(ss) == IF ss = <<>> THEN <<>> ELSE Head(ss) \o Flatten(Tail(ss))

\* routes/uploadProducts.js, rows.map over the first sheet.
ProductRowToDoc(r) ==
    [brand |-> r.Brand, modelNumber |-> ToNumber(r.Model),
     itemCode |-> ToNumber(r.Item_Code), rspVat |-> ToNumber(r.RSP_Vat)]

\* /upload-excel, data.map: brand falls back to the sheet name.
NormalizeProductRow(r, sheetName) ==
    [brand |-> OrStr(r.Brand, OrStr(r.brand, sheetName)),
     modelNumber |-> ToStr(OrCell(r.Model_, OrCell(r.Model, OrCell(r.modelNumber,
                         OrCell(r.Model_no, OrCell(r.model_number, EmptyString)))))),
     itemCode |-> ToStr(OrCell(r.Item_Code, OrCell(r.itemCode,
                         OrCell(r.item_code, EmptyString)))),
     rspVat |-> ToNumber(OrCell(r.RSP_Vat_, OrCell(r.RSP_Vat, OrCell(r.rspVat,
                         OrCell(r.RSP_VAT, 0)))))]

\* The import script: the row as it is, brand set to the sheet name.
ScriptProductRow(r, sheetName) ==
    [brand |-> sheetName, modelNumber |-> r.Model, itemCode |-> r.Item_Code,
     rspVat |-> r.RSP_Vat]

FirstSheetBatch(book) == [i \in 1..Len(book[1]) |-> ProductRowToDoc(book[1][i])]

AllSheetsBatch(book) ==
    Flatten([k \in 1..Len(book) |->
                [i \in 1..Len(book[k]) |-> NormalizeProductRow(book[k][i], SheetNames[k])]])

ScriptBatch(book) ==
    Flatten([k \in 1..Len(book) |->
                [i \in 1..Len(book[k]) |-> ScriptProductRow(book[k][i], SheetNames[k])]])

NoProductUpload ==
    [status |-> 0, count |-> 0, route |-> "", before |-> <<>>, after |-> <<>>,
     batch |-> <<>>, repeat |-> FALSE, tempFile |-> "none"]

\* repeat: the previous import was the same one and the collection is as it left it.
\* tempFile: what has become of the file multer wrote under uploads/ when the
\* response is sent: "kept", "removed" (fs.unlinkSync), or "none" without an upload.
ProductUpload(status, count, route, after, batch, tempFile) ==
    [status |-> status, count |-> count, route |-> route, before |-> products,
     after |-> after, batch |-> batch,
     repeat |-> (productUp.route = route /\ products = productUp.after),
     tempFile |-> tempFile]

\* routes/uploadProducts.js: deleteMany({}), then insertMany(products, {ordered: true}).
UploadProducts ==
    /\ boot = "listening"
    /\ LET batch == FirstSheetBatch(productFile)
           r == ProductInsertMany(batch)
       IN /\ products' = r.coll
          /\ productUp' = ProductUpload(IF r.ok THEN 200 ELSE 500,
                                        IF r.ok THEN Len(batch) ELSE 0,
                                        "upload-products", r.coll, CastAll(batch), "kept")
    /\ UNCHANGED productFile
    /\ UNCHANGED <<leaveVars, userVars, saleVars>>

\* /upload-excel: every sheet, deleteMany({}), then insertMany(allData), then
\* fs.unlinkSync(req.file.path); a rejected insertMany goes to the catch block.
UploadExcel ==
    /\ boot = "listening"
    /\ LET batch == AllSheetsBatch(productFile)
           r == ProductInsertMany(batch)
       IN /\ products' = r.coll
          /\ productUp' = ProductUpload(IF r.ok THEN 200 ELSE 500,
                                        IF r.ok THEN Len(batch) ELSE 0,
                                        "upload-excel", r.coll, CastAll(batch),
                                        IF r.ok THEN "removed" ELSE "kept")
    /\ UNCHANGED productFile
    /\ UNCHANGED <<leaveVars, userVars, saleVars>>

\* The import script: its own schema is empty and not strict, so every row
\* is stored as it is.
ImportScript ==
    /\ LET batch == ScriptBatch(productFile)
       IN /\ products' = batch
          /\ productUp' = ProductUpload(200, Len(batch), "script", batch, batch, "none")
    /\ UNCHANGED productFile
    /\ UNCHANGED <<leaveVars, userVars, saleVars>>

(***************************************************************************)
(* The password reset by one-time password (server.js): forgot-password    *)
(* stores an OTP, verify-otp marks it verified, reset-password-otp sets    *)
(* the password.  otpTrail follows the requests, not the store: the OTP    *)
(* last issued, when, and whether it was confirmed or used.                *)
(***************************************************************************)
\* 10 * 60 * 1000 ms, in ticks of the clock.
OtpLifetime == 1

OtpKeys == {"gokul", "nobody"}
OtpUsernames == {"gokul", "Gokul", "nobody"}
Otps == {"111111", "222222"}
NewPasswords == {"short", "secret1", "secret2"}

\* newPassword.length < 6.
TooShort(password) == password = "short"

\* The only account created with an email is the default admin.
EmailOf(u) == IF u.username = "gokul" THEN "admin@gmail.com" ELSE ""

NoOtp == [otp |-> "", expiry |-> 0, verified |-> FALSE]
NoOtpTrail == [state |-> "none", otp |-> "", issuedAt |-> 0]
IdleOtpRequest ==
    [pc |-> "idle", username |-> "", newPassword |-> "", status |-> 0,
     authorized |-> FALSE, late |-> FALSE]

OtpIdle ==
    /\ otpStore = [k \in OtpKeys |-> NoOtp]
    /\ otpTrail = [k \in OtpKeys |-> NoOtpTrail]
    /\ otpReq = [s \in Slots |-> IdleOtpRequest]

\* POST /api/forgot-password: 404, 403 and 400 leave the store alone; else the
\* OTP is stored and mailed.  otp is crypto.randomInt's choice.
ForgotPassword(username, otp) ==
    /\ boot = "listening"
    /\ LET key == ToLowerCase(username)
           found == {u \in users : u.username = key}
           user == CHOOSE u \in found : TRUE
       IN /\ found # {}
          /\ user.role = "admin"
          /\ EmailOf(user) # ""
          /\ otpStore' = [otpStore EXCEPT ![key] =
                             [otp |-> otp, expiry |-> now + OtpLifetime, verified |-> FALSE]]
          /\ otpTrail' = [otpTrail EXCEPT ![key] =
                             [state |-> "issued", otp |-> otp, issuedAt |-> now]]
    /\ UNCHANGED <<users, userFile, userUp, userDel, userReq, otpReq, userDelReq>>
    /\ UNCHANGED <<leaveVars, saleVars, productVars>>

\* POST /api/verify-otp: no entry, an expired entry (deleted) and a wrong
\* code are answered 400; else the entry is marked verified.
VerifyOtp(username, otp) ==
    /\ boot = "listening"
    /\ LET key == ToLowerCase(username)
           stored == otpStore[key]
       IN /\ key \in OtpKeys
          /\ stored # NoOtp
          /\ IF now > stored.expiry
             THEN /\ otpStore' = [otpStore EXCEPT ![key] = NoOtp]
                  /\ UNCHANGED otpTrail
             ELSE /\ stored.otp = otp
                  /\ otpStore' = [otpStore EXCEPT ![key].verified = TRUE]
                  /\ otpTrail' = [otpTrail EXCEPT ![key].state =
                                     IF otpTrail[key].state = "issued" /\ otpTrail[key].otp = otp
                                     THEN "verified" ELSE otpTrail[key].state]
    /\ UNCHANGED <<users, userFile, userUp, userDel, userReq, otpReq, userDelReq>>
    /\ UNCHANGED <<leaveVars, saleVars, productVars>>

\* stored && stored.verified.
VerifiedEntry(stored) == stored # NoOtp /\ stored.verified

\* POST /api/reset-password-otp up to its await: the checks of the body and
\* of the entry.
ResetPasswordOtpCheck(s, username, newPassword) ==
    /\ boot = "listening"
    /\ otpReq[s].pc \in {"idle", "done"}
    /\ LET key == ToLowerCase(username)
           req == [IdleOtpRequest EXCEPT !.username = username, !.newPassword = newPassword]
       IN otpReq' = [otpReq EXCEPT ![s] =
              IF TooShort(newPassword) THEN [req EXCEPT !.pc = "done", !.status = 400]
              ELSE IF ~VerifiedEntry(otpStore[key])
                   THEN [req EXCEPT !.pc = "done", !.status = 403]
              ELSE [req EXCEPT !.pc = "checked"]]
    /\ UNCHANGED <<users, userFile, userUp, userDel, userReq, otpStore, otpTrail, userDelReq>>
    /\ UNCHANGED <<leaveVars, saleVars, productVars>>

\* User.findOneAndUpdate({username}, {password}), then otpStore.delete and the
\* answer.  authorized and late tell what the trail says when the password is set.
ResetPasswordOtpUpdate(s) ==
    /\ otpReq[s].pc = "checked"
    /\ LET key == ToLowerCase(otpReq[s].username)
           found == {u \in users : u.username = key}
           user == CHOOSE u \in found : TRUE
       IN IF found = {}
          THEN /\ otpReq' = [otpReq EXCEPT ![s].pc = "done", ![s].status = 404]
               /\ UNCHANGED <<users, otpStore, otpTrail>>
          ELSE /\ users' = (users \ {user}) \cup
                               {[user EXCEPT !.password = otpReq[s].newPassword]}
               /\ otpStore' = [otpStore EXCEPT ![key] = NoOtp]
               /\ otpTrail' = [otpTrail EXCEPT ![key].state = "used"]
               /\ otpReq' = [otpReq EXCEPT
                      ![s].pc = "done", ![s].status = 200,
                      ![s].authorized = (otpTrail[key].state = "verified"),
                      ![s].late = (now > otpTrail[key].issuedAt + OtpLifetime)]
    /\ UNCHANGED <<userFile, userUp, userDel, userReq, userDelReq>>
    /\ UNCHANGED <<leaveVars, saleVars, productVars>>

(***************************************************************************)
(* DELETE /api/users/:salesmanId await by await: User.deleteOne, then      *)
(* Sale.deleteMany, then Leave.deleteMany and the answer.  Other requests  *)
(* run between the awaits.                                                 *)
(***************************************************************************)
IdleUserDelete == [pc |-> "idle", salesmanId |-> "", status |-> 0]

\* await User.deleteOne({salesmanId}).
DeleteUserOne(salesmanId) ==
    /\ boot = "listening"
    /\ userDelReq.pc \in {"idle", "done"}
    /\ users' = {u \in users : u.salesmanId # salesmanId}
    /\ userDelReq' = [pc |-> "user", salesmanId |-> salesmanId, status |-> 0]
    /\ UNCHANGED <<userFile, userUp, userDel, userReq, otpVars>>
    /\ UNCHANGED <<leaveVars, saleVars, productVars>>

\* await Sale.deleteMany({salesmanId}).
DeleteUserSales ==
    /\ userDelReq.pc = "user"
    /\ sales' = DeleteSalesOf(sales, userDelReq.salesmanId)
    /\ userDelReq' = [userDelReq EXCEPT !.pc = "sales"]
    /\ UNCHANGED <<saleFile, saleUp, brandStats, saleTotals>>
    /\ UNCHANGED <<users, userFile, userUp, userDel, userReq, otpVars>>
    /\ UNCHANGED <<leaveVars, productVars>>

\* await Leave.deleteMany({salesmanId}); res.json({success: true}).
DeleteUserLeaves ==
    /\ userDelReq.pc = "sales"
    /\ leaves' = {l \in leaves : l.salesmanId # userDelReq.salesmanId}
    /\ userDelReq' = [userDelReq EXCEPT !.pc = "done", !.status = 200]
    /\ UNCHANGED <<boot, leaveIndex, autoIndexed, nextLeaveId, leaveReq, leaveUp, now,
                   leaveOp, leaveBalance>>
    /\ UNCHANGED <<users, userFile, userUp, userDel, userReq, otpVars>>
    /\ UNCHANGED <<saleVars, productVars>>

(***************************************************************************)
(* Specifications of the leaves collection.                                *)
(***************************************************************************)
UsersIdle ==
    /\ users = {} /\ userFile = <<>> /\ userUp = NoUserUpload /\ userDel = NoUserDelete
    /\ userReq = [s \in Slots |-> IdleUserRequest]
    /\ OtpIdle
    /\ userDelReq = IdleUserDelete

\* The users collection after startup, with no request made.
UsersSeeded ==
    /\ users = {DefaultAdmin} /\ userFile = <<>>
    /\ userUp = NoUserUpload /\ userDel = NoUserDelete
    /\ userReq = [s \in Slots |-> IdleUserRequest]
    /\ OtpIdle
    /\ userDelReq = IdleUserDelete
SalesIdle ==
    /\ sales = <<>> /\ saleFile = <<>> /\ saleUp = NoSaleUpload /\ brandStats = NoBrandStats
    /\ saleTotals = NoSaleTotals
ProductsIdle ==
    products = <<>> /\ productFile = << <<>> >> /\ productUp = NoProductUpload

OthersIdle == UsersIdle /\ SalesIdle /\ ProductsIdle

InitLeaves ==
    /\ boot = "connected"
    /\ leaveIndex \in BOOLEAN
    /\ autoIndexed = FALSE
    /\ leaves = {}
    /\ nextLeaveId = 1
    /\ leaveReq = [s \in Slots |-> IdleRequest]
    /\ leaveUp = NoLeaveUpload
    /\ now = 1
    /\ leaveOp = NoLeaveOp
    /\ leaveBalance = NoLeaveBalance
    /\ OthersIdle

\* Leave creation under concurrency: two connections, no import.
NextLeaveRace ==
    \/ AutoIndex
    \/ DropStaleIndex
    \/ SeedAdmin
    \/ \E s \in Slots, b \in CompleteLeaveBodies : CreateLeaveCheck(s, b)
    \/ \E s \in Slots : CreateLeaveInsert(s)
    \/ \E s \in Slots, b \in CompleteLeaveBodies : LegacyLeaveCheck(s, b)
    \/ \E s \in Slots : LegacyLeaveSave(s)
    \/ \E id \in 1..MaxLeaveId : DeleteLeave(id)

SpecLeaveRace == InitLeaves /\ [][NextLeaveRace]_vars

\* Every operation on the leaves collection, one create request at a time.
NextLeaves ==
    \/ AutoIndex
    \/ DropStaleIndex
    \/ SeedAdmin
    \/ \E b \in LeaveBodies : CreateLeaveCheck(1, b)
    \/ CreateLeaveInsert(1)
    \/ \E b \in LeaveBodies : LegacyLeaveCheck(1, b)
    \/ LegacyLeaveSave(1)
    \/ \E file \in LeaveFiles : UploadLeaves(file)
    \/ \E id \in 1..MaxLeaveId, st \in PatchStatuses : UpdateLeaveStatus(id, st)
    \/ \E id \in 1..MaxLeaveId : DeleteLeave(id)

SpecLeaves == InitLeaves /\ [][NextLeaves]_vars

(***************************************************************************)
(* Specifications of the users, sales and products collections.  The       *)
(* server is listening; its startup has dropped the leave index and seeded *)
(* the default admin.                                                      *)
(***************************************************************************)
Started ==
    /\ boot = "listening"
    /\ leaveIndex = FALSE
    /\ autoIndexed = TRUE
    /\ leaves = {}
    /\ nextLeaveId = 1
    /\ leaveReq = [s \in Slots |-> IdleRequest]
    /\ leaveUp = NoLeaveUpload
    /\ now = 1
    /\ leaveOp = NoLeaveOp
    /\ leaveBalance = NoLeaveBalance

InitUsers ==
    /\ Started
    /\ users = {DefaultAdmin}
    /\ userFile \in UserFiles
    /\ userUp = NoUserUpload
    /\ userDel = NoUserDelete
    /\ userReq = [s \in Slots |-> IdleUserRequest]
    /\ OtpIdle
    /\ userDelReq = IdleUserDelete
    /\ SalesIdle
    /\ ProductsIdle

NextUsers ==
    \/ \E b \in UserBodies : CreateUser(b)
    \/ \E b \in UserBodies : LegacyCreateUser(b)
    \/ \E id \in SalesmanIds : ResetPassword(id, "new")
    \/ \E id \in SalesmanIds : DeleteUser(id)
    \/ UploadUsers

SpecUsers == InitUsers /\ [][NextUsers]_vars

InitSales ==
    /\ Started
    /\ UsersSeeded
    /\ sales = <<>>
    /\ saleFile \in SaleFiles
    /\ saleUp = NoSaleUpload
    /\ brandStats = NoBrandStats
    /\ saleTotals = NoSaleTotals
    /\ ProductsIdle

NextSales ==
    \/ \E b \in SaleBodies : CreateSale(b)
    \/ \E b \in SaleBodies : SaveSale(b)
    \/ \E i \in 1..MaxSales : DeleteSale(i)
    \/ UploadSales
    \/ LegacyUploadSales

SpecSales == InitSales /\ [][NextSales]_vars

\* The sales reports: sales of two brands on two days are recorded, and the
\* report is asked for at any time.
StatBodies ==
    [salesmanId : {"S1"}, salesmanName : {"N"}, date : {1, 2}, brand : {"X", "Y"},
     itemCode : {"I"}, quantity : {1, 2}, price : {0, 50}, totalAmount : {Absent}]

QueryDates == {0} \cup Dates

InitSaleStats ==
    /\ Started
    /\ UsersSeeded
    /\ SalesIdle
    /\ ProductsIdle

NextSaleStats ==
    \/ \E b \in StatBodies : Len(sales) < MaxStatSales /\ CreateSale(b)
    \/ \E b \in StatBodies : Len(sales) < MaxStatSales /\ SaveSale(b)
    \/ \E startDate, endDate \in QueryDates : GetBrandStats(startDate, endDate)

SpecSaleStats == InitSaleStats /\ [][NextSaleStats]_vars

\* The cascade of a salesman's delete: salesmen, their sales and their
\* leaves are created, and salesmen are deleted.
CascadeUserBodies ==
    [username : {"alice", "bob"}, password : {"pw"}, name : {"N"},
     role : {"salesman"}, salesmanId : SalesmanIds]

CascadeSaleBodies ==
    [salesmanId : SalesmanIds, salesmanName : {"N"}, date : {1}, brand : {"B"},
     itemCode : {"I"}, quantity : {2}, price : {50}, totalAmount : {Absent}]

CascadeLeaveBodies ==
    [salesmanId : SalesmanIds, salesmanName : {"N"}, date : {1}, reason : {"r"},
     fromDate : {1}, toDate : {2}, status : {""}]

InitCascade ==
    /\ Started
    /\ UsersSeeded
    /\ SalesIdle
    /\ ProductsIdle

NextCascade ==
    \/ \E b \in CascadeUserBodies : CreateUser(b)
    \/ \E b \in CascadeSaleBodies : Len(sales) < MaxCascadeSales /\ CreateSale(b)
    \/ \E b \in CascadeLeaveBodies : LegacyLeaveCheck(1, b)
    \/ LegacyLeaveSave(1)
    \/ \E id \in SalesmanIds : DeleteUser(id)
    \/ \E id \in SalesmanIds : LegacyDeleteUser(id)

SpecCascade == InitCascade /\ [][NextCascade]_vars

\* User creation under concurrency: two connections and the import of a
\* one-row sheet.
RaceUserBodies ==
    [username : {"alice", "Alice"}, password : {"pw"}, name : {"N"},
     role : {"admin", "salesman"}, salesmanId : {"S1"}]

InitUserRace ==
    /\ Started
    /\ users = {DefaultAdmin}
    /\ userFile \in SeqsUpTo(UserRows, 1)
    /\ userUp = NoUserUpload
    /\ userDel = NoUserDelete
    /\ userReq = [s \in Slots |-> IdleUserRequest]
    /\ OtpIdle
    /\ userDelReq = IdleUserDelete
    /\ SalesIdle
    /\ ProductsIdle

NextUserRace ==
    \/ \E s \in Slots, b \in RaceUserBodies : CreateUserCheck(s, b)
    \/ \E s \in Slots : CreateUserInsert(s)
    \/ UploadUsers

SpecUserRace == InitUserRace /\ [][NextUserRace]_vars

\* Review of leaves: imported leaves, the PATCH status update, the approve and
\* reject methods, and the clock.
ReviewFiles == SeqsUpTo({r \in LeaveRows : r.SalesmanID = "S1" /\ r.ToDate = 0}, 1)

InitLeaveReview ==
    /\ Started
    /\ OthersIdle

NextLeaveReview ==
    \/ \E file \in ReviewFiles : UploadLeaves(file)
    \/ \E id \in 1..MaxLeaveId, st \in PatchStatuses : UpdateLeaveStatus(id, st)
    \/ \E id \in 1..MaxLeaveId, a \in Admins : ApproveLeave(id, a)
    \/ \E id \in 1..MaxLeaveId, a \in Admins, reason \in Reasons : RejectLeave(id, a, reason)
    \/ Tick

SpecLeaveReview == InitLeaveReview /\ [][NextLeaveReview]_vars

InitProducts ==
    /\ Started
    /\ UsersSeeded
    /\ SalesIdle
    /\ products = <<>>
    /\ productFile \in Workbooks
    /\ productUp = NoProductUpload

NextProducts ==
    \/ UploadProducts
    \/ UploadExcel
    \/ ImportScript

SpecProducts == InitProducts /\ [][NextProducts]_vars


\* Product imports of one row whose columns use the header spellings
\* /upload-excel knows, with numbers, zeros and text in the cells.
ColumnRows ==
    {Merge(r, o) :
        r \in [Item_Code : {Absent, 0, 7}, itemCode : {Absent, 7, 8}, item_code : {Absent, 7},
               RSP_Vat_ : {Absent, 0, 60}, RSP_Vat : {50, Text}],
        o \in [Brand : {"LG"}, brand : {""}, Model_ : {Absent}, Model : {5},
               modelNumber : {Absent}, Model_no : {Absent}, model_number : {Absent},
               rspVat : {Absent}, RSP_VAT : {Absent}]}

\* A row every import accepts.
PlainRow ==
    CHOOSE r \in ColumnRows :
        /\ r.Item_Code = 7 /\ r.itemCode = Absent /\ r.item_code = Absent
        /\ r.RSP_Vat_ = Absent /\ r.RSP_Vat = 50

\* Workbooks of one sheet: one row, or the plain row and one more.
ColumnBooks ==
    {<< <<r>> >> : r \in ColumnRows} \cup {<< <<PlainRow, r>> >> : r \in ColumnRows}

InitProductColumns ==
    /\ Started
    /\ UsersSeeded
    /\ SalesIdle
    /\ products \in {<<>>, <<[brand |-> "LG", modelNumber |-> 5, itemCode |-> 7,
                              rspVat |-> 50]>>}
    /\ productFile \in ColumnBooks
    /\ productUp = NoProductUpload

NextProductColumns ==
    \/ UploadProducts
    \/ UploadExcel

SpecProductColumns == InitProductColumns /\ [][NextProductColumns]_vars

\* Product imports, of workbooks with and without rows, into a collection
\* that is empty or holds a product.
StoredProduct == [brand |-> "LG", modelNumber |-> 5, itemCode |-> 7, rspVat |-> 50]

InitProductStore ==
    /\ Started
    /\ UsersSeeded
    /\ SalesIdle
    /\ products \in {<<>>, <<StoredProduct>>}
    /\ productFile \in Workbooks
    /\ productUp = NoProductUpload

SpecProductStore == InitProductStore /\ [][NextProducts]_vars

\* Leave balances: leaves of two salesmen in two years, created with the
\* three statuses, and the balance query.
LeaveSpans == {<<1, 1>>, <<1, 4>>, <<3, 1>>, <<366, 367>>}

BalanceBodies ==
    {b \in [salesmanId : SalesmanIds, salesmanName : {"N"}, date : {0}, reason : {"r"},
            fromDate : {1, 3, 366}, toDate : {1, 4, 367},
            status : {"", "pending", "rejected"}] :
        <<b.fromDate, b.toDate>> \in LeaveSpans}

InitLeaveBalance ==
    /\ Started
    /\ OthersIdle

NextLeaveBalance ==
    \/ \E b \in BalanceBodies : LegacyLeaveCheck(1, b)
    \/ LegacyLeaveSave(1)
    \/ \E salesmanId \in SalesmanIds, year \in Years : GetSalesmanLeaveBalance(salesmanId, year)

SpecLeaveBalance == InitLeaveBalance /\ [][NextLeaveBalance]_vars

\* Totals and ranges: sales of two salesmen on two dates, and the two queries
\* with each date given or not.
TotalBodies ==
    [salesmanId : SalesmanIds, salesmanName : {"N"}, date : Dates, brand : {"X"},
     itemCode : {"I"}, quantity : {1, 2}, price : {50}, totalAmount : {Absent}]

NextSaleTotals ==
    \/ \E b \in TotalBodies : Len(sales) < MaxStatSales /\ CreateSale(b)
    \/ \E salesmanId \in SalesmanIds, startDate \in QueryDates, endDate \in QueryDates :
           QuerySales(salesmanId, startDate, endDate)

SpecSaleTotals == InitSaleStats /\ [][NextSaleTotals]_vars

\* The password reset of the default admin: the three requests, two
\* connections for the reset, and the clock.
NextOtp ==
    \/ \E username \in OtpUsernames, otp \in Otps : ForgotPassword(username, otp)
    \/ \E username \in OtpUsernames, otp \in Otps : VerifyOtp(username, otp)
    \/ \E s \in Slots, username \in OtpUsernames, newPassword \in NewPasswords :
           ResetPasswordOtpCheck(s, username, newPassword)
    \/ \E s \in Slots : ResetPasswordOtpUpdate(s)
    \/ Tick

SpecOtp == InitCascade /\ [][NextOtp]_vars

\* The delete of a salesman racing with the creation of users, sales and
\* leaves: the delete one await at a time, the leave creations of both
\* servers on one connection.
NextDeleteRace ==
    \/ \E b \in CascadeUserBodies : CreateUser(b)
    \/ \E b \in CascadeSaleBodies : Len(sales) < MaxCascadeSales /\ CreateSale(b)
    \/ \E b \in CascadeLeaveBodies : CreateLeaveCheck(1, b)
    \/ CreateLeaveInsert(1)
    \/ \E b \in CascadeLeaveBodies : LegacyLeaveCheck(1, b)
    \/ LegacyLeaveSave(1)
    \/ \E id \in SalesmanIds : DeleteUserOne(id)
    \/ DeleteUserSales
    \/ DeleteUserLeaves

SpecDeleteRace == InitCascade /\ [][NextDeleteRace]_vars

(***************************************************************************)
(* C1: no two stored Leave records have the same (salesmanId, fromDate),   *)
(* after any sequence of creates, imports, status updates and deletes.     *)
(***************************************************************************)
C1_UniqueLeavePerStartDate == NoDuplicateLeaves(leaves)

(***************************************************************************)
(* C2: of two leave create requests for the same (salesmanId, start date), *)
(* processed with their check and insert steps interleaved, at most one    *)
(* leaves a record in the store.                                           *)
(***************************************************************************)
C2_AtMostOneConcurrentCreate ==
    \A a, b \in Slots :
        (a # b /\ leaveReq[a].pc = "done" /\ leaveReq[b].pc = "done"
              /\ leaveReq[a].id # 0 /\ leaveReq[b].id # 0)
        => ~ \E la, lb \in leaves :
               /\ la.id = leaveReq[a].id /\ lb.id = leaveReq[b].id
               /\ la.salesmanId = lb.salesmanId /\ la.fromDate = lb.fromDate

(***************************************************************************)
(* C3: a valid leave create request (salesmanId, name, date, reason) sent  *)
(* to POST /api/leaves succeeds and stores one record when no leave exists *)
(* for its (salesmanId, date), and is answered with the 400 conflict when  *)
(* one does.                                                               *)
(***************************************************************************)
C3_CreateThenConflict ==
    \A s \in Slots :
        (leaveReq[s].pc = "done" /\ leaveReq[s].route = "server" /\ ~leaveReq[s].missing)
        => IF leaveReq[s].found
           THEN leaveReq[s].status = 400
           ELSE /\ leaveReq[s].status = 201
                /\ \E l \in leaves : l.id = leaveReq[s].id

(***************************************************************************)
(* C4: a user import that returns a summary reports inserted + skipped =   *)
(* totalRows; the skipped rows are exactly those lacking Username,         *)
(* Password, Name or Role and those whose username was in the store when   *)
(* the row was processed (before the import, or created by an earlier row  *)
(* of the file); every other row created one user.                         *)
(***************************************************************************)
UserRowIncomplete(i) ==
    \/ userFile[i].Username = "" \/ userFile[i].Password = ""
    \/ userFile[i].Name = "" \/ userFile[i].Role = ""

UserRowTaken(i) ==
    \/ \E u \in userUp.before : u.username = ToLowerCase(userFile[i].Username)
    \/ \E j \in 1..(i - 1) :
          /\ ~UserRowIncomplete(j)
          /\ ToLowerCase(userFile[j].Username) = ToLowerCase(userFile[i].Username)

SkippedUserRows == {i \in 1..Len(userFile) : UserRowIncomplete(i) \/ UserRowTaken(i)}

C4_UserImportSummary ==
    userUp.status = 200 =>
        /\ userUp.inserted + userUp.skipped = userUp.totalRows
        /\ userUp.totalRows = Len(userFile)
        /\ userUp.skipped = Cardinality(SkippedUserRows)
        /\ userUp.inserted = Cardinality(userUp.after \ userUp.before)
        /\ \A i \in (1..Len(userFile)) \ SkippedUserRows :
               \E u \in userUp.after \ userUp.before :
                   u.username = ToLowerCase(userFile[i].Username)

\* An import where a complete row is skipped for a username taken by an
\* earlier row of the file, differently capitalised.
C4_Witness ==
    /\ userUp.status = 200
    /\ userUp.inserted = 1
    /\ userUp.skipped = 1
    /\ Len(userFile) = 2
    /\ userFile[1].Username = "alice"
    /\ userFile[2].Username = "Alice"

(***************************************************************************)
(* C5: the user import never deletes or modifies a user that existed       *)
(* before it, and a second import of the same file, made on the collection *)
(* as the first left it, inserts nothing and leaves the collection         *)
(* identical.                                                              *)
(***************************************************************************)
C5_UserImportAdditiveIdempotent ==
    userUp.status # 0 =>
        /\ userUp.before \subseteq userUp.after
        /\ userUp.repeat => (userUp.after = userUp.before /\ userUp.inserted = 0)

\* A second import of a two-row file whose rows the first import inserted.
C5_Witness ==
    /\ userUp.repeat
    /\ userUp.status = 200
    /\ Len(userFile) = 2
    /\ userUp.skipped = 2
    /\ \A i \in 1..2 : ~UserRowIncomplete(i)
    /\ Cardinality(userUp.before) >= 3

(***************************************************************************)
(* C6: a row of a user import whose creation fails does not stop the       *)
(* import: a summary is returned and every row that is complete and valid  *)
(* by itself has its user in the store afterwards.                         *)
(***************************************************************************)
UserRowCreatable(i) ==
    /\ ~UserRowIncomplete(i)
    /\ ToLowerCase(userFile[i].Role) \in UserRoleEnum
    /\ ToLowerCase(userFile[i].Role) = "salesman" => userFile[i].SalesmanId # ""

C6_FailingRowIsolated ==
    userUp.status # 0 =>
        /\ userUp.status = 200
        /\ \A i \in 1..Len(userFile) :
               UserRowCreatable(i) =>
                   \E u \in userUp.after : u.username = ToLowerCase(userFile[i].Username)

(***************************************************************************)
(* C7: a product import run a second time with the same file leaves the    *)
(* collection as the first run left it, and that collection is the batch   *)
(* derived from the file.                                                  *)
(***************************************************************************)
C7_ProductImportIdempotent ==
    (productUp.status # 0 /\ productUp.repeat) =>
        /\ productUp.after = productUp.before
        /\ productUp.after = productUp.batch

(***************************************************************************)
(* C8: a sale import leaves the stored sales as they were, in front of     *)
(* what it adds, and two imports in a row of a file of N valid rows add    *)
(* 2N records.                                                             *)
(***************************************************************************)
SaleRowWellFormed(r) ==
    /\ r.Salesman # "" /\ r.Date # 0 /\ r.Brand # "" /\ r.Item_Code # ""
    /\ IsNumber(r.Quantity) /\ r.Quantity >= 1
    /\ IsNumber(r.RSP_VAT)

SaleRowValid(r) == SaleRowWellFormed(r) /\ IsNumber(r.Total_Amount)

SaleFileValid == \A i \in 1..Len(saleFile) : SaleRowValid(saleFile[i])

C8_SaleImportAppendOnly ==
    saleUp.status # 0 =>
        /\ IsPrefix(saleUp.before, saleUp.after)
        /\ (saleUp.repeat /\ SaleFileValid) =>
               Len(saleUp.after) = saleUp.base + 2 * Len(saleFile)

\* The second of two imports of a valid file, into a collection that held
\* sales before the first.
C8_Witness ==
    /\ saleUp.repeat
    /\ saleUp.status = 200
    /\ SaleFileValid
    /\ Len(saleFile) >= 1
    /\ saleUp.base >= 1
    /\ Len(saleUp.after) = saleUp.base + 2 * Len(saleFile)

(***************************************************************************)
(* C9: every stored sale whose input gave no total amount has totalAmount  *)
(* = quantity * price, and an imported row that is well formed but has no  *)
(* Total Amount is stored with that product as its total.                  *)
(***************************************************************************)
C9_TotalIsQuantityTimesPrice ==
    /\ \A i \in 1..Len(sales) :
           ~sales[i].supplied => sales[i].totalAmount = sales[i].quantity * sales[i].price
    /\ saleUp.status = 200 =>
           \A i \in 1..Len(saleFile) :
               (SaleRowWellFormed(saleFile[i]) /\ saleFile[i].Total_Amount = Absent) =>
                   \E j \in (Len(saleUp.before) + 1)..Len(saleUp.after) :
                       /\ ~saleUp.after[j].supplied
                       /\ saleUp.after[j].quantity = saleFile[i].Quantity
                       /\ saleUp.after[j].totalAmount
                              = saleFile[i].Quantity * saleFile[i].RSP_VAT

(***************************************************************************)
(* C10: a sale or leave import answers with success whatever rows fail     *)
(* validation, stores every valid row, and reports as count the number of  *)
(* records it stored.                                                      *)
(***************************************************************************)
C10_InvalidRowsSkippedAndCounted ==
    /\ saleUp.status \notin {0, 400} =>
           /\ saleUp.status = 200
           /\ saleUp.count = Len(saleUp.after) - Len(saleUp.before)
           /\ Len(saleUp.after) - Len(saleUp.before)
                  >= Cardinality({i \in 1..Len(saleFile) : SaleRowValid(saleFile[i])})
    /\ leaveUp.status \notin {0, 400} =>
           /\ leaveUp.status = 200
           /\ leaveUp.count = leaveUp.stored
           /\ leaveUp.stored = leaveUp.valid

(***************************************************************************)
(* C11: when an import request that uploaded a file is answered, with      *)
(* success or with an error, its temporary file has been removed.          *)
(***************************************************************************)
C11_TempFileRemoved ==
    /\ productUp.status # 0 => productUp.tempFile # "kept"
    /\ userUp.status # 0 => userUp.tempFile # "kept"
    /\ saleUp.status # 0 => saleUp.tempFile # "kept"

(***************************************************************************)
(* C12: getBrandStats returns one entry per distinct brand among the sales *)
(* matching the date range (a range given by both dates), with totalSales  *)
(* the sum of totalAmount, totalQuantity the sum of quantity and           *)
(* transactionCount the number of those sales of the brand, in descending  *)
(* order of totalSales.                                                    *)
(***************************************************************************)
RECURSIVE SumOf(_, _, _)
SumOf(I, coll, field) ==
    IF I = {} THEN 0
    ELSE LET i == CHOOSE i \in I : TRUE
             v == IF field = "totalAmount" THEN coll[i].totalAmount ELSE coll[i].quantity
         IN (IF v >= 0 THEN v ELSE 0) + SumOf(I \ {i}, coll, field)

StatsMatching ==
    {i \in 1..Len(brandStats.over) :
        (brandStats.startDate # 0 /\ brandStats.endDate # 0) =>
            /\ brandStats.over[i].date >= brandStats.startDate
            /\ brandStats.over[i].date <= brandStats.endDate}

StatsOfBrand(brand) == {i \in StatsMatching : brandStats.over[i].brand = brand}

C12_BrandStats ==
    brandStats.asked =>
        LET res == brandStats.result
        IN /\ {res[k].id : k \in 1..Len(res)} = {brandStats.over[i].brand : i \in StatsMatching}
           /\ \A j, k \in 1..Len(res) : res[j].id = res[k].id => j = k
           /\ \A k \in 1..Len(res) :
                  /\ res[k].totalSales = SumOf(StatsOfBrand(res[k].id), brandStats.over, "totalAmount")
                  /\ res[k].totalQuantity = SumOf(StatsOfBrand(res[k].id), brandStats.over, "quantity")
                  /\ res[k].transactionCount = Cardinality(StatsOfBrand(res[k].id))
           /\ \A j, k \in 1..Len(res) : j < k => res[j].totalSales >= res[k].totalSales

\* Two sales of X (50 and 100) and one of Y (100), all in the queried range:
\* X:150 comes before Y:100.
C12_Witness ==
    /\ brandStats.asked
    /\ brandStats.startDate = 1 /\ brandStats.endDate = 2
    /\ Len(brandStats.over) = 3
    /\ \E i \in 1..3 : brandStats.over[i].date = 2
    /\ Len(brandStats.result) = 2
    /\ brandStats.result[1].transactionCount = 2
    /\ brandStats.result[1].totalSales = 150
    /\ brandStats.result[2].totalSales = 100

(***************************************************************************)
(* C13: a successful delete of salesman S leaves no user, sale or leave    *)
(* with salesmanId S, and leaves every user, sale and leave of another     *)
(* salesmanId as it was.                                                   *)
(***************************************************************************)
DeletedSalesman(salesmanId) ==
    /\ DeleteUser(salesmanId) \/ LegacyDeleteUser(salesmanId)
    /\ userDel'.status = 200

CascadeEffect(salesmanId) ==
    /\ ~ \E u \in users' : u.salesmanId = salesmanId
    /\ ~ \E i \in 1..Len(sales') : sales'[i].salesmanId = salesmanId
    /\ ~ \E l \in leaves' : l.salesmanId = salesmanId
    /\ {u \in users : u.salesmanId # salesmanId} = users'
    /\ SelectSeq(sales, LAMBDA x : x.salesmanId # salesmanId) = sales'
    /\ {l \in leaves : l.salesmanId # salesmanId} = leaves'

C13_DeleteCascade ==
    [][\A salesmanId \in SalesmanIds :
          DeletedSalesman(salesmanId) => CascadeEffect(salesmanId)]_vars

\* Salesman S1 has just been deleted; nothing of S1 is stored, and S2 still
\* has its user, a sale and a leave.
C13_Witness ==
    /\ userDel = [salesmanId |-> "S1", status |-> 200]
    /\ ~ \E u \in users : u.salesmanId = "S1"
    /\ \E u \in users : u.salesmanId = "S2"
    /\ Len(sales) >= 1 /\ \A i \in 1..Len(sales) : sales[i].salesmanId = "S2"
    /\ leaves # {} /\ \A l \in leaves : l.salesmanId = "S2"

(***************************************************************************)
(* C14: in every state of the users collection a user has role salesman    *)
(* exactly when it has a salesmanId, and no two users have the same        *)
(* salesmanId.                                                             *)
(***************************************************************************)
C14_SalesmanHasUniqueId ==
    /\ \A u \in users : (u.role = "salesman") <=> (u.salesmanId # "")
    /\ \A u, v \in users : (u.salesmanId # "" /\ u.salesmanId = v.salesmanId) => u = v

\* A salesman and an admin have been created besides the default admin, and
\* an import has been refused for one of its rows.
C14_Witness ==
    /\ \E u \in users : u.role = "salesman" /\ u.salesmanId = "S1"
    /\ \E u \in users : u.role = "admin" /\ u.username # "gokul"
    /\ userUp.status = 500

(***************************************************************************)
(* C15: no two stored users have usernames that are equal after            *)
(* lowercasing, under any interleaving of create requests and imports; a   *)
(* create request whose username is in use is answered with a client error *)
(* and the users are left as they were.                                    *)
(***************************************************************************)
C15_UsernameUnique ==
    /\ \A u, v \in users : ToLowerCase(u.username) = ToLowerCase(v.username) => u = v
    /\ \A s \in Slots :
           (userReq[s].pc = "done" /\ userReq[s].taken) => userReq[s].status = 400

(***************************************************************************)
(* C16: in every reachable state the status of every stored leave is one   *)
(* of pending, approved, rejected, whichever of create, import and the     *)
(* PATCH status update wrote it.                                           *)
(***************************************************************************)
C16_LeaveStatusInEnum == \A l \in leaves : l.status \in LeaveStatusEnum

(***************************************************************************)
(* C17: the status of a stored leave changes only from pending to approved *)
(* or from pending to rejected; an approved or rejected leave keeps its    *)
(* status.                                                                 *)
(***************************************************************************)
LeaveTransitionAllowed(l, m) ==
    l.status # m.status => (l.status = "pending" /\ m.status \in {"approved", "rejected"})

C17_StatusTransitions ==
    [][\A l \in leaves : \A m \in leaves' : l.id = m.id => LeaveTransitionAllowed(l, m)]_vars

(***************************************************************************)
(* C18: approving is idempotent: the approve operation applied to a leave  *)
(* that is already approved leaves status, approvedBy, approvedAt and      *)
(* rejectionReason as they were.                                           *)
(***************************************************************************)
ReviewFields(l) == <<l.status, l.approvedBy, l.approvedAt, l.rejectionReason>>

C18_ApproveIdempotent ==
    (leaveOp.op = "approve" /\ leaveOp.before.status = "approved")
        => ReviewFields(leaveOp.after) = ReviewFields(leaveOp.before)

(***************************************************************************)
(* C19: the normalized itemCode of a product row is the value of the first *)
(* present spelling among "Item Code", itemCode and "item code", so it is  *)
(* the same whichever one spelling carries the value; likewise rspVat for  *)
(* its spellings.                                                          *)
(***************************************************************************)
FirstPresent(cells, default) ==
    IF \E i \in 1..Len(cells) : cells[i] # Absent
    THEN cells[CHOOSE i \in 1..Len(cells) :
                   cells[i] # Absent /\ \A j \in 1..(i - 1) : cells[j] = Absent]
    ELSE default

C19_FirstSpellingWins ==
    (productUp.route = "upload-excel" /\ productUp.status = 200) =>
        LET r == productFile[1][1]
            doc == productUp.batch[1]
        IN /\ doc.itemCode = CastNumber(ToStr(FirstPresent(<<r.Item_Code, r.itemCode,
                                                             r.item_code>>, EmptyString)))
           /\ doc.rspVat = ToNumber(FirstPresent(<<r.RSP_Vat_, r.RSP_Vat, r.rspVat,
                                                   r.RSP_VAT>>, 0))

(***************************************************************************)
(* C20: text that is no number in a price column of an imported row never  *)
(* makes the import fail: the import succeeds, the field of that row is 0  *)
(* or a sentinel (NaN, null), and the other rows are stored.               *)
(***************************************************************************)
TextInPrice(r) == Text \in {r.RSP_Vat_, r.RSP_Vat, r.rspVat, r.RSP_VAT}

\* The rows have an item code; 60 is the price an earlier spelling carries.
C20_TextNeverFailsImport ==
    LET rows == productFile[1]
    IN (/\ productUp.status # 0
        /\ \A i \in 1..Len(rows) : rows[i].Item_Code = 7
        /\ \E i \in 1..Len(rows) : TextInPrice(rows[i])) =>
           /\ productUp.status = 200
           /\ Len(productUp.after) = Len(rows)
           /\ \A i \in 1..Len(rows) :
                  TextInPrice(rows[i]) => productUp.after[i].rspVat \in {0, NaN, Null, 60}

(***************************************************************************)
(* C21: an import of a spreadsheet without rows is rejected with an error  *)
(* and leaves the collection as it was; an empty file never clears the     *)
(* products.                                                               *)
(***************************************************************************)
C21_EmptyFileRejected ==
    (productUp.status # 0 /\ Flatten(productFile) = <<>>) =>
        /\ productUp.status >= 400
        /\ productUp.after = productUp.before

(***************************************************************************)
(* C22: a product import stores the rows of every sheet of the workbook,   *)
(* in sheet order, and the brand of a stored row is the row's Brand when   *)
(* it has one and the name of its sheet when it has none.                  *)
(***************************************************************************)
BrandsOfBook(book) ==
    Flatten([k \in 1..Len(book) |->
                [i \in 1..Len(book[k]) |-> OrStr(book[k][i].Brand, SheetNames[k])]])

BrandsOf(coll) == [i \in 1..Len(coll) |-> coll[i].brand]

C22_AllSheetsWithBrand ==
    productUp.status = 200 => BrandsOf(productUp.after) = BrandsOfBook(productFile)

(***************************************************************************)
(* C24: every stored leave has toDate >= fromDate, after any create and    *)
(* any import (a row without ToDate gets its FromDate).                    *)
(***************************************************************************)
C24_ToDateNotBeforeFromDate == \A l \in leaves : l.toDate >= l.fromDate

(***************************************************************************)
(* C25: every stored leave has date = fromDate, whether a create, a save   *)
(* or an import wrote it, also after status updates.                       *)
(***************************************************************************)
C25_DateIsFromDate == \A l \in leaves : l.date = l.fromDate

\* A leave stored by a create whose body gave another date than fromDate, and
\* an imported leave whose status was updated.
C25_Witness ==
    /\ \E l \in leaves :
           /\ leaveReq[1].pc = "done" /\ leaveReq[1].route = "legacy"
           /\ leaveReq[1].id = l.id
           /\ leaveReq[1].date # l.fromDate
           /\ l.date = l.fromDate
    /\ \E l \in leaves : l.status = "rejected" /\ l.fromDate = 2

(***************************************************************************)
(* C23: getSalesmanLeaveBalance(salesmanId, year) returns the sum of the   *)
(* inclusive day counts of the approved leaves of that salesman whose      *)
(* fromDate is in the year; other leaves add nothing and the result is     *)
(* never negative.                                                         *)
(***************************************************************************)
BalanceAnswered ==
    /\ leaveBalance' # leaveBalance
    /\ leaveBalance'.result =
           TotalDays(FindApproved(leaves, leaveBalance'.salesmanId, leaveBalance'.year))

BalanceIsSum == [][leaveBalance' # leaveBalance => BalanceAnswered]_vars

\* The sum is BalanceIsSum; the result of a query is never negative.
C23_LeaveBalance == leaveBalance.asked => leaveBalance.result >= 0

(***************************************************************************)
(* C26: for every salesmanId, startDate and endDate, each date given or    *)
(* not, getTotalSales returns the total and the count of exactly the sales *)
(* getSalesByDateRange returns for the same arguments, and total 0 and     *)
(* count 0 when there are none.                                            *)
(***************************************************************************)
C26_TotalsMatchRange ==
    saleTotals.asked =>
        LET range == saleTotals.range
        IN /\ saleTotals.totals.count = Len(range)
           /\ saleTotals.totals.total =
                  SeqSum([i \in 1..Len(range) |-> NumOrZero(range[i].totalAmount)])

(***************************************************************************)
(* C29: a product import that is answered with an error leaves the         *)
(* products as they were before the request: the delete and the insert     *)
(* take effect together or not at all.                                     *)
(***************************************************************************)
C29_FailedImportKeepsProducts ==
    productUp.status >= 400 => productUp.after = productUp.before

(***************************************************************************)
(* C27: reset-password-otp changes a password only when the OTP last       *)
(* issued for the username was confirmed by verify-otp with its code and   *)
(* not used by a reset since; a reset without a new issue and verify is    *)
(* refused.                                                                *)
(***************************************************************************)
C27_ResetNeedsVerifiedOtp ==
    \A s \in Slots :
        (otpReq[s].pc = "done" /\ otpReq[s].status = 200) => otpReq[s].authorized

\* What the handler does keep: a reset passes its checks only while the OTP
\* last issued for the username is verified and unused.
ResetAdmittedOnVerified ==
    [][\A s \in Slots :
          (otpReq[s].pc # "checked" /\ otpReq'[s].pc = "checked")
              => otpTrail[ToLowerCase(otpReq'[s].username)].state = "verified"]_vars

(***************************************************************************)
(* C28: an OTP never authorizes a password change after its expiry time: a *)
(* reset later than the lifetime after the issue is refused, also when the *)
(* OTP was verified in time.                                               *)
(***************************************************************************)
C28_NoResetAfterExpiry ==
    \A s \in Slots :
        (otpReq[s].pc = "done" /\ otpReq[s].status = 200) => ~otpReq[s].late

(***************************************************************************)
(* C30: when the delete of salesman S has run together with requests that  *)
(* create sales or leaves of S, then at the moment the delete answers,     *)
(* with no creation still in flight, no sale or leave of S is stored       *)
(* unless a user with salesmanId S is.                                     *)
(***************************************************************************)
OrphansOf(userColl, saleColl, leaveColl, salesmanId) ==
    /\ ~ \E u \in userColl : u.salesmanId = salesmanId
    /\ \/ \E i \in 1..Len(saleColl) : saleColl[i].salesmanId = salesmanId
       \/ \E l \in leaveColl : l.salesmanId = salesmanId

C30_NoOrphanAfterDelete ==
    [][(/\ userDelReq.pc = "sales"
        /\ userDelReq'.pc = "done"
        /\ \A s \in Slots : leaveReq'[s].pc # "checked")
           => ~OrphansOf(users', sales', leaves', userDelReq.salesmanId)]_vars


====
